---- MODULE Spec2Model ----
(***************************************************************************)
(* Model of the task queue of src/src/modules/aiSummary.ts                 *)
(* (class GlobalTaskQueue and the module-level globalTaskQueue instance),  *)
(* of the worker the queue runs (summarizeSinglePdf with its retry loop    *)
(* and its local fallback) and of the parser of streamed responses         *)
(* (parseSSEResponse of src/src/llm/providers.ts).                         *)
(*                                                                         *)
(* JavaScript runs the queue on one thread: every public method, and every *)
(* continuation of runTask after its await, runs to completion.  Each of   *)
(* them is one action here.  A handler is computed on a record S of the    *)
(* queue's fields by the operators below, and the action installs the      *)
(* resulting record in the variables.                                      *)
(*                                                                         *)
(* Specifications:                                                         *)
(*   Spec       the queue's operations and worker completions              *)
(*   SpecLive   the same on fewer tasks, workers throwing any value        *)
(*   FairSpec   SpecLive where every running worker eventually settles     *)
(*   SpecIO     the same on fewer tasks, with streamed output and with the *)
(*              caller's view of every call recorded                       *)
(*   SpecStream workers that stream different fragments                    *)
(*   SpecBatch  batches on the queue with the history cap of the class     *)
(*   SpecClear  batches cleared while their first tasks run and stream     *)
(*   SpecListen listeners that subscribe, unsubscribe and throw            *)
(*   SpecNotify SpecListen with streamed output                            *)
(*   SpecRate   the rate limiter (class RateLimiter) and its callers       *)
(*   SpecRetry  one task whose worker makes remote, fallback and local     *)
(*              requests that return or throw, with any retry budget       *)
(*   SpecBackoff one task whose remote request throws transient errors,    *)
(*              with retry budgets that reach the cap of the delay         *)
(*   SpecFresh  tasks in remote mode submitted one after the other         *)
(*   SpecSSE    parseSSEResponse reading a response cut into chunks        *)
(*   SpecParse  parseSSEResponse on event streams and on JSON documents,   *)
(*              read from a stream or, without a reader, in one piece      *)
(*   SpecLimited workers that wait for a slot of the rate limiter before   *)
(*              their first request, while time passes                     *)
(*   SpecRateLive SpecRate where time passes and every timer fires         *)
(*   SpecOnce   every step of one worker invocation behind a rate limiter  *)
(*              that another caller also uses                              *)
(*   SpecSelect invocations of summarizeSelected and the queue they fill   *)
(*   SpecReenter listeners that call the queue while they are notified     *)
(* Date.now() returns the same value throughout the queue's                *)
(* specifications: no property of the queue depends on the time that       *)
(* passes between two handlers.  The clock advances in SpecRate,           *)
(* SpecRateLive, SpecLimited and SpecOnce.                                 *)
(***************************************************************************)
EXTENDS Integers, Sequences, FiniteSets, TLC

\* ---------------------------------------------------------------- bounds
MaxTasks == 4            \* number of submit calls explored by Spec
MaxTasksIO == 2          \* number of submit calls explored by SpecIO
MaxTasksLive == 2        \* number of submit calls explored by SpecLive
MaxConcurrency == 2      \* largest argument passed to setConcurrency
MaxOut == 1              \* chunks appended to the buffers of all tasks
MaxCompletedHistory == 2 \* history cap (maxCompletedHistory), scaled down
MaxTasksStream == 2      \* number of submit calls explored by SpecStream
MaxOutStream == 2        \* fragments kept by the buffers in SpecStream
MaxTasksBatch == 5       \* number of submit calls explored by SpecBatch
MaxTasksClear == 4       \* number of submit calls explored by SpecClear
MaxTasksListen == 2      \* number of submit calls explored by SpecListen
MaxCallers == 3          \* concurrent callers of waitForSlot in SpecRate
MaxClock == 7            \* last value of the clock in SpecRate
MaxRetries == 2          \* largest retry budget (prefs.retryOn524)
MaxOutRetry == 1         \* fragments streamed by the requests of SpecRetry
MaxTasksFresh == 2       \* number of submit calls explored by SpecFresh
MaxBackoffRetries == 4   \* largest retry budget in SpecBackoff
MaxLines == 2            \* lines of the response bodies of SpecSSE
MaxTasksSelect == 2      \* number of tasks submitted in SpecSelect
MaxSelected == 2         \* attachments collected by one summarizeSelected
MaxAttachments == 2      \* number of different attachments
MaxTasksLimited == 2     \* number of submit calls explored by SpecLimited
MaxRetriesLimited == 1   \* largest retry budget in SpecLimited
MaxClockLimited == 3     \* last tick of the clock in SpecLimited
MaxTasksReenter == 2     \* number of submit calls explored by SpecReenter
MaxReentry == 1          \* calls made by the listeners during one handler
MaxTasksOnce == 1        \* number of submit calls explored by SpecOnce
MaxRetriesOnce == 1      \* largest retry budget in SpecOnce
MaxClockOnce == 3        \* last tick of the clock in SpecOnce
MaxEvents == 3           \* lines of the event streams of SpecParse
MaxChunk == 7            \* bytes of the chunks read in SpecParse

\* ------------------------------------------------------- values and types
\* the history cap the class is constructed with
DefaultMaxCompletedHistory == 1000

NoTime == -1             \* startTime / endTime not set (undefined)
Undefined == "undefined" \* error field not set

Chunks == {"a"}

\* the fragments a worker's stream delivers to its callback
StreamChunks == {"a", "b"}

\* values a worker can throw: an Error instance, or any other value
ThrownError == [isError |-> TRUE, obj |-> "thrown", message |-> "boom"]
ThrownValue == [isError |-> FALSE, obj |-> "thrown", message |-> "oops"]
Thrown == {ThrownError, ThrownValue}

\* new Error(msg): a fresh Error object
NewError(msg) == [isError |-> TRUE, obj |-> "new", message |-> msg]

NoReason == [isError |-> FALSE, obj |-> "none", message |-> Undefined]

Terminal == {"completed", "failed", "cancelled"}

\* the listener functions passed to addEventListener, and those that throw
\* when they are called
Listeners == {1, 2}
ThrowingListeners == {1}

NotNotified == [l \in Listeners |-> 0]

\* the rate limiter's clock counts units of 100 ms: the 100 ms that
\* waitForSlot adds to its wait are one unit
SlotBuffer == 1

\* the arguments of waitForSlot: prefs.rateLimitCount (at least 1) and the
\* window, scaled down to a few units
RateCounts == {1, 2}
RateWindows == {2, 3}

Callers == 1..MaxCallers

\* the error messages of a failed request.  summarizeWithRemotePdf throws
\* Error("<prefix>: <status> <body>") with the first 500 characters of the
\* response body, summarize throws Error("<prefix>: <status> <body>"), and a
\* stream that breaks throws the error of the reader.  The last remote
\* message is a 413 response whose body names a limit of 52428800 bytes.
RemoteMessages ==
  {"remote: 524 timeout", "Error in input stream", "remote: 413 too large",
   "remote: 401 unauthorized", "remote: 413 limit 52428800"}

LocalMessages ==
  {"local: 524 timeout", "local: 413 too large", "local: 401 unauthorized"}

\* the messages of the errors the fallback branch builds
ExtractFailedMessage == "413, local text cannot be read"
EmptyTextMessage == "413, local text is empty"

\* the needles the worker searches the messages for, and the needles each
\* message holds (the second list is compared in lower case)
Mentions ==
  [m \in RemoteMessages \cup LocalMessages
        \cup {ExtractFailedMessage, EmptyTextMessage} |->
     CASE m = "remote: 524 timeout" -> {"524"}
       [] m = "Error in input stream" -> {"error in input stream"}
       [] m = "remote: 413 too large" -> {"413"}
       [] m = "remote: 401 unauthorized" -> {}
       [] m = "remote: 413 limit 52428800" -> {"413", "524"}
       [] m = "local: 524 timeout" -> {"524"}
       [] m = "local: 413 too large" -> {"413"}
       [] m = "local: 401 unauthorized" -> {}
       [] m = ExtractFailedMessage -> {"413"}
       [] m = EmptyTextMessage -> {"413"}]

\* the Error a failed request throws
RequestError(m) == [isError |-> TRUE, obj |-> "thrown", message |-> m]

\* Bytes and characters of a response.  An ASCII byte and its character are
\* the same string; "LF" and "CR" are the line feed and the carriage
\* return; the bytes "C3" "A9" encode the character "E9" (U+00E9), and
\* "FFFD" is the replacement character.  In a payload "{" stands for the
\* opening of a candidates / content / parts document and "}" for its
\* closing, a part is the character of its text ("0" for an empty text,
\* "_" for a text that is one space), and "?" in front of it stands for
\* thought: true.  "<" and ">" stand for the opening and the closing of a
\* choices / message / content document around the character of its content.
DataPrefix == <<"d", "a", "t", "a", ":", " ">>
Done == <<"[", "D", "O", "N", "E", "]">>
TextChars == {"x", "h", "E9", "0", "_"}
Whitespace == {" ", "CR", "LF"}

\* the text a character of a payload stands for
Text(c) == IF c = "0" THEN <<>> ELSE IF c = "_" THEN <<" ">> ELSE <<c>>

\* the lines of the responses: an answer, a thought followed by an answer of
\* two bytes, the end marker, a payload that is not JSON, a line without
\* the space of the prefix, an empty line, and an answer ending in CR
ResponseLines ==
  {DataPrefix \o <<"{", "x", "}">>,
   DataPrefix \o <<"{", "?", "x", "C3", "A9", "}">>,
   DataPrefix \o Done,
   DataPrefix \o <<"{", "x">>,
   <<"d", "a", "t", "a", ":", "{", "x", "}">>,
   <<>>,
   DataPrefix \o <<"{", "x", "}", "CR">>}

\* the responses of n lines at most, each line ended by a line feed
RECURSIVE Terminated(_)
Terminated(n) ==
  IF n = 0 THEN {<<>>}
  ELSE Terminated(n - 1)
       \cup {b \o l \o <<"LF">> : b \in Terminated(n - 1), l \in ResponseLines}

\* the complete responses: the last line may lack its line feed
Responses ==
  Terminated(MaxLines)
  \cup {b \o l : b \in Terminated(MaxLines - 1), l \in ResponseLines}

\* the lines of the event streams: an answer, a thought, the end marker, a
\* payload that is not JSON, and an answer that is one space
EventLines ==
  {DataPrefix \o <<"{", "x", "}">>,
   DataPrefix \o <<"{", "?", "h", "}">>,
   DataPrefix \o Done,
   DataPrefix \o <<"{", "x">>,
   DataPrefix \o <<"{", "_", "}">>}

\* the event streams of n lines at most, each line ended by a line feed
RECURSIVE TerminatedEvents(_)
TerminatedEvents(n) ==
  IF n = 0 THEN {<<>>}
  ELSE TerminatedEvents(n - 1)
       \cup {b \o l \o <<"LF">> :
               b \in TerminatedEvents(n - 1), l \in EventLines}

EventStreams ==
  TerminatedEvents(MaxEvents)
  \cup {b \o l : b \in TerminatedEvents(MaxEvents - 1), l \in EventLines}

\* the bodies that are one JSON document and no event stream: an answer, a
\* thought followed by an answer, and a chat completion, with and without a
\* line feed at the end
JsonBodies ==
  LET docs == {<<"{", "x", "}">>, <<"{", "?", "h", "x", "}">>,
               <<"<", "x", ">">>}
  IN docs \cup {d \o <<"LF">> : d \in docs}

\* the ids of the attachments, and the lists of attachments that an
\* invocation of summarizeSelected collects
Attachments == 1..MaxAttachments
Selections == UNION {[1..k -> Attachments] : k \in 1..MaxSelected}

\* the values of prefs.retryOn524 and prefs.pdfParseMode
RetryBudgets == 0..MaxRetries
ParseModes == {"remote", "local"}

\* result.markdown of a request that succeeded, and the line put in front of
\* it after a fallback
Markdown == "markdown"
Banner == "banner"

\* the chunks passed to onStreamChunk: a fragment of the response, the
\* notice of a retry and the notice of the fallback
TextChunk ==
  [kind |-> "text", reason |-> "", retryNum |-> 0, maxRetries |-> 0,
   seconds |-> 0]

FallbackNotice ==
  [kind |-> "fallback", reason |-> "413", retryNum |-> 0, maxRetries |-> 0,
   seconds |-> 0]

VARIABLES
  queue,          \* pending list: sequence of task ids
  runningTasks,   \* running map, in insertion order: sequence of task ids
  completedTasks, \* history list: sequence of task ids
  tasks,          \* the task objects ever created, tasks[id]
  promises,       \* the promise returned by submit for each task
  concurrency,    \* concurrency limit
  worker,         \* TRUE iff a worker function is registered
  maxCompletedHistory, \* history cap
  eventListeners, \* registered listeners, in insertion order
  now,            \* the value Date.now() returns
  timestamps,     \* RateLimiter.timestamps
  callers,        \* where each caller of waitForSlot is
  admissions,     \* the times waitForSlot recorded, in the order of recording
  rateArgs,       \* the arguments every caller passes to waitForSlot
  admitLog,       \* ids in the order runTask made them running
  belowLimit,     \* TRUE iff runTask always found running.size < limit
  lastCall,       \* what the caller of the last handler observed
  prefs,          \* the preferences the tasks were submitted with
  workers,        \* where the worker invocation of each task is
  body,           \* the bytes of the response that parseSSEResponse reads
  offset,         \* number of bytes of the response read so far
  pending,        \* bytes of an incomplete character kept by the decoder
  buffer,         \* parseSSEResponse: buffer
  markdown,       \* parseSSEResponse: markdown
  thoughtsMarkdown, \* parseSSEResponse: thoughtsMarkdown
  fragments,      \* the calls of onStreamChunk made by parseSSEResponse
  result,         \* what parseSSEResponse returned, empty before it returns
  splits,         \* where the chunks read so far ended: inside a character,
                  \* inside the data prefix, inside a line
  reader          \* whether res.body.getReader() returns a reader

vars == <<queue, runningTasks, completedTasks, tasks, promises, concurrency,
          worker, maxCompletedHistory, eventListeners, now, timestamps,
          callers, admissions, rateArgs, admitLog, belowLimit, lastCall,
          prefs, workers,
          body, offset, pending, buffer, markdown, thoughtsMarkdown,
          fragments, result, splits, reader>>

\* the variables of the rate limiter and of its callers, and those of the
\* queue
rateVars == <<timestamps, callers, admissions, rateArgs>>

queueVars ==
  <<queue, runningTasks, completedTasks, tasks, promises, concurrency,
    worker, maxCompletedHistory, eventListeners, admitLog, belowLimit,
    lastCall>>

\* the variables of the worker invocations, and those of the stream parser
workerVars == <<prefs, workers>>

sseVars ==
  <<body, offset, pending, buffer, markdown, thoughtsMarkdown, fragments,
    result, splits, reader>>

\* ------------------------------------------------------------- helpers
SeqToSet(s) == {s[i] : i \in 1..Len(s)}

RemoveAt(s, i) == SubSeq(s, 1, i - 1) \o SubSeq(s, i + 1, Len(s))

\* Array.prototype.findIndex((t) => t.id === taskId); 0 stands for -1
FindIndex(s, id) ==
  IF \E i \in 1..Len(s) : s[i] = id
  THEN CHOOSE i \in 1..Len(s) : s[i] = id /\ \A j \in 1..(i - 1) : s[j] # id
  ELSE 0

Max(a, b) == IF a >= b THEN a ELSE b

\* the record of the queue's fields a handler works on, with what its
\* listeners observe during the handler: the number of notifications
\* (emits), the number of calls of each listener (notified) and the fields
\* as they were at the last notification (seen, empty before the first);
\* script holds the calls of the queue that the listeners make when they
\* are called, one per call of a listener, none unless a handler is given
\* some
State ==
  [queue |-> queue, runningTasks |-> runningTasks,
   completedTasks |-> completedTasks, tasks |-> tasks, promises |-> promises,
   concurrency |-> concurrency, worker |-> worker,
   maxCompletedHistory |-> maxCompletedHistory,
   eventListeners |-> eventListeners, now |-> now,
   admitLog |-> admitLog, belowLimit |-> belowLimit, emits |-> 0,
   notified |-> NotNotified, seen |-> <<>>, script |-> <<>>]

InstallQueue(S) ==
  /\ queue' = S.queue
  /\ runningTasks' = S.runningTasks
  /\ completedTasks' = S.completedTasks
  /\ tasks' = S.tasks
  /\ promises' = S.promises
  /\ concurrency' = S.concurrency
  /\ worker' = S.worker
  /\ maxCompletedHistory' = S.maxCompletedHistory
  /\ eventListeners' = S.eventListeners
  /\ now' = S.now
  /\ admitLog' = S.admitLog
  /\ belowLimit' = S.belowLimit
  /\ UNCHANGED <<rateVars, sseVars>>

\* a handler of the queue that is not a step of a worker invocation
Install(S) == InstallQueue(S) /\ UNCHANGED workerVars

\* ------------------------------------------------------------ promises
NewPromise == [state |-> "pending", reason |-> NoReason, calls |-> 0]

\* task.resolve(): only the first settlement of a promise takes effect
Resolve(p) ==
  IF p.state = "pending"
  THEN [state |-> "fulfilled", reason |-> NoReason, calls |-> p.calls + 1]
  ELSE [p EXCEPT !.calls = @ + 1]

\* task.reject(e)
Reject(p, e) ==
  IF p.state = "pending"
  THEN [state |-> "rejected", reason |-> e, calls |-> p.calls + 1]
  ELSE [p EXCEPT !.calls = @ + 1]

\* --------------------------------------------------- GlobalTaskQueue
\* getStatus() returning failed tasks only in its failed count
GetStatus_failedOnly(S) ==
  LET Completed(id) == S.tasks[id].status = "completed"
      Failed(id) == S.tasks[id].status = "failed"
  IN [queued |-> Len(S.queue),
      running |-> Len(S.runningTasks),
      concurrency |-> S.concurrency,
      completed |-> Len(SelectSeq(S.completedTasks, Completed)),
      failed |-> Len(SelectSeq(S.completedTasks, Failed))]

\* getStatus()
GetStatus(S) ==
  LET Completed(id) == S.tasks[id].status = "completed"
      Failed(id) == \/ S.tasks[id].status = "failed"
                    \/ S.tasks[id].status = "cancelled"
  IN [queued |-> Len(S.queue),
      running |-> Len(S.runningTasks),
      concurrency |-> S.concurrency,
      completed |-> Len(SelectSeq(S.completedTasks, Completed)),
      failed |-> Len(SelectSeq(S.completedTasks, Failed))]

\* the TaskInfo objects getAllTasks() builds for a running, a pending and a
\* history task: a field left out of the object literal is undefined
RunningInfo(S, id) ==
  [id |-> id, status |-> S.tasks[id].status, error |-> Undefined,
   startTime |-> S.tasks[id].startTime, endTime |-> NoTime,
   output |-> S.tasks[id].output,
   thoughtOutput |-> S.tasks[id].thoughtOutput]

PendingInfo(S, id) ==
  [id |-> id, status |-> S.tasks[id].status, error |-> Undefined,
   startTime |-> NoTime, endTime |-> NoTime,
   output |-> S.tasks[id].output,
   thoughtOutput |-> S.tasks[id].thoughtOutput]

HistoryInfo(S, id) ==
  [id |-> id, status |-> S.tasks[id].status, error |-> S.tasks[id].error,
   startTime |-> S.tasks[id].startTime, endTime |-> S.tasks[id].endTime,
   output |-> S.tasks[id].output,
   thoughtOutput |-> S.tasks[id].thoughtOutput]

\* getAllTasks() walking the history from its first entry to its last
GetAllTasks_forward(S) ==
  [i \in 1..Len(S.runningTasks) |-> RunningInfo(S, S.runningTasks[i])]
  \o [i \in 1..Len(S.queue) |-> PendingInfo(S, S.queue[i])]
  \o [i \in 1..Len(S.completedTasks) |-> HistoryInfo(S, S.completedTasks[i])]

\* getAllTasks(): the running map in insertion order, the pending list, then
\* the history from its last entry down to its first
GetAllTasks(S) ==
  [i \in 1..Len(S.runningTasks) |-> RunningInfo(S, S.runningTasks[i])]
  \o [i \in 1..Len(S.queue) |-> PendingInfo(S, S.queue[i])]
  \o [i \in 1..Len(S.completedTasks) |->
        HistoryInfo(S, S.completedTasks[Len(S.completedTasks) - i + 1])]

\* the fields getStatus() and getAllTasks() read
Fields(S) ==
  [queue |-> S.queue, runningTasks |-> S.runningTasks,
   completedTasks |-> S.completedTasks, tasks |-> S.tasks,
   concurrency |-> S.concurrency]

\* what a listener reads through getStatus() and getAllTasks()
Visible(S) == [status |-> GetStatus(S), tasks |-> GetAllTasks(S)]

\* a listener that is called makes the next call of S.script (defined
\* below, after the handlers it calls)
RECURSIVE Reenter(_)

\* emitEvent() without try / catch: the exception of a listener leaves the
\* for loop
RECURSIVE EmitLoop_noCatch(_, _)
EmitLoop_noCatch(S, i) ==
  IF i > Len(S.eventListeners) THEN S
  ELSE LET l == S.eventListeners[i]
           S1 == [S EXCEPT !.notified[l] = @ + 1]
       IN IF l \in ThrowingListeners THEN S1
          ELSE EmitLoop_noCatch(S1, i + 1)

\* emitEvent(), the for loop from the i-th listener on: the listener is
\* called inside try / catch, and what it throws is ignored.  The listener
\* makes the next call of the script, if there is one, before it returns or
\* throws.
RECURSIVE EmitLoop(_, _)
EmitLoop(S, i) ==
  IF i > Len(S.eventListeners) THEN S
  ELSE LET l == S.eventListeners[i]
           S1 == Reenter([S EXCEPT !.notified[l] = @ + 1])
       IN IF l \in ThrowingListeners THEN EmitLoop(S1, i + 1)
          ELSE EmitLoop(S1, i + 1)

\* the fields S once the listeners of one more notification have read them
Notification(S) == [S EXCEPT !.emits = @ + 1, !.seen = <<Fields(S)>>]

\* emitEvent(): every registered listener is called once (written as the
\* choice from a one-element set, which evaluates S once)
EmitEvent(S) == CHOOSE T \in {EmitLoop(Notification(x), 1) : x \in {S}} : TRUE

\* What the caller of a handler and the listeners observe: the handler, its
\* argument, the value it returned, the number of notifications it made, the
\* number of calls of each listener, and whether what the listeners could
\* read at the last notification is what they can read when the handler
\* returns.  With rec = FALSE only the returned value is kept.
Call(rec, op, arg, ret, S) ==
  lastCall' =
    IF rec
    THEN [op |-> op, arg |-> arg, ret |-> ret, emits |-> S.emits,
          notified |-> S.notified,
          fresh |-> S.seen # <<>> /\ Visible(S.seen[1]) = Visible(S)]
    ELSE [op |-> "", arg |-> 0, ret |-> ret, emits |-> 0,
          notified |-> NotNotified, fresh |-> FALSE]

\* trimCompletedHistory() removing with pop(): drops the newest entries
TrimCompletedHistory_pop(S) ==
  IF Len(S.completedTasks) > S.maxCompletedHistory
  THEN [S EXCEPT !.completedTasks = SubSeq(@, 1, S.maxCompletedHistory)]
  ELSE S

\* trimCompletedHistory(): shift() while the history is longer than the cap
TrimCompletedHistory(S) ==
  IF Len(S.completedTasks) > S.maxCompletedHistory
  THEN [S EXCEPT !.completedTasks =
          SubSeq(@, Len(@) - S.maxCompletedHistory + 1, Len(@))]
  ELSE S

\* runTask without the assignment to task.startTime
RunTask_noStart(S, id) ==
  IF ~S.worker
  THEN [S EXCEPT !.promises[id] = Reject(@, NewError("Worker not set"))]
  ELSE EmitEvent([S EXCEPT !.tasks[id].status = "running",
                           !.runningTasks = Append(@, id),
                           !.admitLog = Append(@, id),
                           !.belowLimit =
                             @ /\ Len(S.runningTasks) < S.concurrency])

\* runTask(task) up to its await: the task becomes running
RunTask(S, id) ==
  IF ~S.worker
  THEN [S EXCEPT !.promises[id] = Reject(@, NewError("Worker not set"))]
  ELSE EmitEvent([S EXCEPT !.tasks[id].status = "running",
                           !.tasks[id].startTime = S.now,
                           !.runningTasks = Append(@, id),
                           !.admitLog = Append(@, id),
                           !.belowLimit =
                             @ /\ Len(S.runningTasks) < S.concurrency])

\* tryRunNext() comparing with <= : admits one task beyond the limit
RECURSIVE TryRunNext_leq(_)
TryRunNext_leq(S) ==
  IF Len(S.runningTasks) <= S.concurrency /\ Len(S.queue) > 0
  THEN TryRunNext_leq(RunTask([S EXCEPT !.queue = Tail(@)], Head(S.queue)))
  ELSE S

\* tryRunNext(): admit from the head of the pending list while below the limit
RECURSIVE TryRunNext(_)
TryRunNext(S) ==
  IF Len(S.runningTasks) < S.concurrency /\ Len(S.queue) > 0
  THEN TryRunNext(RunTask([S EXCEPT !.queue = Tail(@)], Head(S.queue)))
  ELSE S

\* the new task object built by submit
NewTask ==
  [status |-> "pending", error |-> Undefined, startTime |-> NoTime,
   endTime |-> NoTime, output |-> <<>>, thoughtOutput |-> <<>>]

\* submit(data) putting the task at the front of the pending list (unshift)
SubmitBody_unshift(S) ==
  LET id == Len(S.tasks) + 1
      S1 == [S EXCEPT !.tasks = Append(@, NewTask),
                      !.promises = Append(@, NewPromise),
                      !.queue = <<id>> \o @]
  IN TryRunNext(EmitEvent(S1))

\* submit(data)
SubmitBody(S) ==
  LET id == Len(S.tasks) + 1
      S1 == [S EXCEPT !.tasks = Append(@, NewTask),
                      !.promises = Append(@, NewPromise),
                      !.queue = Append(@, id)]
  IN TryRunNext(EmitEvent(S1))

\* setConcurrency(n) storing n without Math.max
SetConcurrencyBody_noMax(S, n) == TryRunNext([S EXCEPT !.concurrency = n])

\* setConcurrency(n) that only stores the limit
SetConcurrencyBody_noRun(S, n) == [S EXCEPT !.concurrency = Max(1, n)]

\* setConcurrency(n)
SetConcurrencyBody(S, n) ==
  TryRunNext([S EXCEPT !.concurrency = Max(1, n)])

\* index used by cancelTask to locate the task
CancelIndex(S, id) == FindIndex(S.queue, id)

\* cancelTask that never rejects the promise
CancelFound_noReject(S, id, index) ==
  LET S1 == [S EXCEPT !.queue = RemoveAt(@, index),
                      !.tasks[id].status = "cancelled",
                      !.tasks[id].endTime = S.now,
                      !.completedTasks = Append(@, id)]
  IN EmitEvent(TrimCompletedHistory(S1))

\* cancelTask calling splice(index): drops the task and all tasks behind it
CancelFound_spliceAll(S, id, index) ==
  LET S1 == [S EXCEPT !.queue = SubSeq(@, 1, index - 1),
                      !.tasks[id].status = "cancelled",
                      !.tasks[id].endTime = S.now,
                      !.completedTasks = Append(@, id)]
      S2 == TrimCompletedHistory(S1)
      S3 == [S2 EXCEPT !.promises[id] = Reject(@, NewError("Task cancelled"))]
  IN EmitEvent(S3)

\* cancelTask(taskId), the branch taken when the task is in the pending list
CancelFound(S, id, index) ==
  LET S1 == [S EXCEPT !.queue = RemoveAt(@, index),
                      !.tasks[id].status = "cancelled",
                      !.tasks[id].endTime = S.now,
                      !.completedTasks = Append(@, id)]
      S2 == TrimCompletedHistory(S1)
      S3 == [S2 EXCEPT !.promises[id] = Reject(@, NewError("Task cancelled"))]
  IN EmitEvent(S3)

\* catch block that always wraps the thrown value in a new Error
SettleStatus_wrap(S, id, threw, outcome) ==
  IF ~threw
  THEN [S EXCEPT !.tasks[id].status = "completed",
                 !.promises[id] = Resolve(@)]
  ELSE [S EXCEPT !.tasks[id].status = "failed",
                 !.tasks[id].error = outcome.message,
                 !.promises[id] = Reject(@, NewError(outcome.message))]

\* the continuation of runTask after the worker's promise settled:
\* try / catch / finally.  threw tells whether the worker threw, and then
\* outcome is the thrown value
SettleStatus(S, id, threw, outcome) ==
  IF ~threw
  THEN [S EXCEPT !.tasks[id].status = "completed",
                 !.promises[id] = Resolve(@)]
  ELSE [S EXCEPT !.tasks[id].status = "failed",
                 !.tasks[id].error = outcome.message,
                 !.promises[id] =
                   Reject(@, IF outcome.isError THEN outcome
                             ELSE NewError(outcome.message))]

\* continuation of runTask whose finally block does not call tryRunNext
SettleBody_noRerun(S, id, threw, outcome) ==
  LET S1 == SettleStatus(S, id, threw, outcome)
      S2 == [S1 EXCEPT !.tasks[id].endTime = S.now,
                       !.runningTasks = RemoveAt(@, FindIndex(@, id)),
                       !.completedTasks = Append(@, id)]
  IN EmitEvent(TrimCompletedHistory(S2))

\* continuation of runTask whose finally block leaves the task in the map
SettleBody_keepRunning(S, id, threw, outcome) ==
  LET S1 == SettleStatus(S, id, threw, outcome)
      S2 == [S1 EXCEPT !.tasks[id].endTime = S.now,
                       !.completedTasks = Append(@, id)]
  IN TryRunNext(EmitEvent(TrimCompletedHistory(S2)))

SettleBody(S, id, threw, outcome) ==
  LET S1 == SettleStatus(S, id, threw, outcome)
      S2 == [S1 EXCEPT !.tasks[id].endTime = S.now,
                       !.runningTasks = RemoveAt(@, FindIndex(@, id)),
                       !.completedTasks = Append(@, id)]
  IN TryRunNext(EmitEvent(TrimCompletedHistory(S2)))

\* clear(): one pending task of the for loop
RECURSIVE ClearLoop(_, _)
ClearLoop(S, i) ==
  IF i > Len(S.queue) THEN S
  ELSE LET id == S.queue[i]
       IN ClearLoop([S EXCEPT !.tasks[id].status = "cancelled",
                              !.tasks[id].endTime = S.now,
                              !.completedTasks = Append(@, id),
                              !.promises[id] =
                                Reject(@, NewError("Queue cleared"))],
                    i + 1)

\* clear() that does not reset the pending list
ClearBody_keepQueue(S) == EmitEvent(TrimCompletedHistory(ClearLoop(S, 1)))

\* clear()
ClearBody(S) ==
  EmitEvent(TrimCompletedHistory([ClearLoop(S, 1) EXCEPT !.queue = <<>>]))

\* clearHistory()
ClearHistoryBody(S) == EmitEvent([S EXCEPT !.completedTasks = <<>>])

\* cancelTask that notifies the listeners before it removes the task
CancelTaskBody_emitFirst(S, id) ==
  LET index == CancelIndex(S, id)
      S0 == EmitEvent(S)
      S1 == [S0 EXCEPT !.queue = IF index <= Len(@) THEN RemoveAt(@, index)
                                 ELSE @,
                       !.tasks[id].status = "cancelled",
                       !.tasks[id].endTime = S.now,
                       !.completedTasks = Append(@, id)]
      S2 == TrimCompletedHistory(S1)
  IN IF index = 0 THEN S
     ELSE [S2 EXCEPT !.promises[id] = Reject(@, NewError("Task cancelled"))]

\* cancelTask(taskId)
CancelTaskBody(S, id) ==
  LET index == CancelIndex(S, id)
  IN IF index # 0 THEN CancelFound(S, id, index) ELSE S

\* the call c of a handler of the queue, made by a caller or by a listener
\* that is being notified
Invoke(S, c) ==
  CASE c.op = "submit" -> SubmitBody(S)
    [] c.op = "setConcurrency" -> SetConcurrencyBody(S, c.arg)
    [] c.op = "cancelTask" -> CancelTaskBody(S, c.arg)
    [] c.op = "clear" -> ClearBody(S)
    [] c.op = "clearHistory" -> ClearHistoryBody(S)
    [] c.op = "workerResolve" -> SettleBody(S, c.arg, FALSE, NoReason)

Reenter(S) ==
  IF S.script = <<>> THEN S
  ELSE Invoke([S EXCEPT !.script = Tail(@)], Head(S.script))

\* appendOutput putting the chunk in front of the buffer
AppendOutputBody_prepend(S, id, chunk, isThought) ==
  IF id \in SeqToSet(S.runningTasks)
  THEN EmitEvent(IF isThought
                 THEN [S EXCEPT !.tasks[id].thoughtOutput = <<chunk>> \o @]
                 ELSE [S EXCEPT !.tasks[id].output = <<chunk>> \o @])
  ELSE S

\* appendOutput that looks the task up in every collection
AppendOutputBody_anyTask(S, id, chunk, isThought) ==
  IF id \in 1..Len(S.tasks)
  THEN EmitEvent(IF isThought
                 THEN [S EXCEPT !.tasks[id].thoughtOutput = Append(@, chunk)]
                 ELSE [S EXCEPT !.tasks[id].output = Append(@, chunk)])
  ELSE S

\* appendOutput(taskId, chunk, isThought)
AppendOutputBody(S, id, chunk, isThought) ==
  IF id \in SeqToSet(S.runningTasks)
  THEN EmitEvent(IF isThought
                 THEN [S EXCEPT !.tasks[id].thoughtOutput = Append(@, chunk)]
                 ELSE [S EXCEPT !.tasks[id].output = Append(@, chunk)])
  ELSE S

\* ---------------------------------------------------------------- Init
\* the rate limiter as constructed, before callers that pass maxRequests
\* and windowMs
InitRateLimiter(maxRequests, windowMs) ==
  /\ timestamps = <<>>
  /\ callers = [c \in Callers |-> [pc |-> "idle", wakeAt |-> 0]]
  /\ admissions = <<>>
  /\ rateArgs = [maxRequests |-> maxRequests, windowMs |-> windowMs]

\* the queue as constructed, with the worker registered at module load and
\* with history cap cap
InitQueue(cap) ==
  /\ queue = <<>>
  /\ runningTasks = <<>>
  /\ completedTasks = <<>>
  /\ tasks = <<>>
  /\ promises = <<>>
  /\ concurrency = 1
  /\ worker = TRUE
  /\ maxCompletedHistory = cap
  /\ eventListeners = <<>>
  /\ now = 0
  /\ admitLog = <<>>
  /\ belowLimit = TRUE
  /\ lastCall = [op |-> "", arg |-> 0, ret |-> TRUE, emits |-> 0,
                 notified |-> NotNotified, fresh |-> FALSE]

\* no worker invocation has started; the tasks are submitted with retry
\* budget retryOn524 and parse mode pdfParseMode
InitWorkers(retryOn524, pdfParseMode) ==
  /\ prefs = [retryOn524 |-> retryOn524, pdfParseMode |-> pdfParseMode]
  /\ workers = <<>>

\* parseSSEResponse called with a response of these bytes
InitResponse(bytes, hasReader) ==
  /\ body = bytes
  /\ reader = hasReader
  /\ offset = 0
  /\ pending = <<>>
  /\ buffer = <<>>
  /\ markdown = <<>>
  /\ thoughtsMarkdown = <<>>
  /\ fragments = <<>>
  /\ result = <<>>
  /\ splits = {}

\* parseSSEResponse before its first read of a response with these bytes
InitParser(bytes) == InitResponse(bytes, TRUE)

\* what the queue's specifications leave alone
InitRest ==
  /\ InitRateLimiter(2, 3)
  /\ InitWorkers(0, "remote")
  /\ InitParser(<<>>)

\* the history cap is scaled down, so that eviction happens on few tasks
Init == InitQueue(MaxCompletedHistory) /\ InitRest

\* the queue as constructed, with the history cap of the class
InitBatch == InitQueue(DefaultMaxCompletedHistory) /\ InitRest

\* the rate limiter as constructed, before callers that all pass the same
\* arguments
InitRate ==
  /\ InitQueue(MaxCompletedHistory)
  /\ \E m \in RateCounts, w \in RateWindows : InitRateLimiter(m, w)
  /\ InitWorkers(0, "remote")
  /\ InitParser(<<>>)

\* the queue before one task with a large retry budget, in remote mode
InitBackoff ==
  /\ InitQueue(MaxCompletedHistory)
  /\ InitRateLimiter(2, 3)
  /\ \E b \in 0..MaxBackoffRetries : InitWorkers(b, "remote")
  /\ InitParser(<<>>)

\* parseSSEResponse before it reads any of the complete responses
InitSSE ==
  /\ InitQueue(MaxCompletedHistory)
  /\ InitRateLimiter(2, 3)
  /\ InitWorkers(0, "remote")
  /\ \E b \in Responses : InitParser(b)

\* parseSSEResponse called with an event stream or with a JSON document,
\* with or without a reader
InitParse ==
  /\ InitQueue(MaxCompletedHistory)
  /\ InitRateLimiter(2, 3)
  /\ InitWorkers(0, "remote")
  /\ \E b \in EventStreams \cup JsonBodies, r \in BOOLEAN : InitResponse(b, r)

\* the queue before tasks in remote mode, with any retry budget
InitFresh ==
  /\ InitQueue(MaxCompletedHistory)
  /\ InitRateLimiter(2, 3)
  /\ \E b \in RetryBudgets : InitWorkers(b, "remote")
  /\ InitParser(<<>>)

\* the queue and the rate limiter before tasks whose workers wait for a slot
\* and send requests, with any retry budget, either parse mode and any
\* number of requests per window
InitLimited ==
  /\ InitQueue(MaxCompletedHistory)
  /\ \E m \in RateCounts : InitRateLimiter(m, 2)
  /\ \E b \in 0..MaxRetriesLimited, m \in ParseModes : InitWorkers(b, m)
  /\ InitParser(<<>>)

\* the queue and a rate limiter of one request per window before tasks whose
\* workers wait for a slot and send requests, with any retry budget and
\* either parse mode
InitOnce ==
  /\ InitQueue(MaxCompletedHistory)
  /\ InitRateLimiter(1, 2)
  /\ \E b \in 0..MaxRetriesOnce, m \in ParseModes : InitWorkers(b, m)
  /\ InitParser(<<>>)

\* the queue before tasks whose workers send requests, with any retry budget
\* and either parse mode
InitRetry ==
  /\ InitQueue(MaxCompletedHistory)
  /\ InitRateLimiter(2, 3)
  /\ \E b \in RetryBudgets, m \in ParseModes : InitWorkers(b, m)
  /\ InitParser(<<>>)

\* ------------------------------------------------------------- actions
\* Every action is one handler run to completion; max bounds the number of
\* tasks submitted and rec tells how much of the call is recorded.
Submit(max, rec) ==
  /\ Len(tasks) < max
  /\ LET S == SubmitBody(State)
     IN Install(S) /\ Call(rec, "submit", Len(tasks) + 1, TRUE, S)

SetConcurrency(n, rec) ==
  LET S == SetConcurrencyBody(State, n)
  IN Install(S) /\ Call(rec, "setConcurrency", n, TRUE, S)

\* cancelTask with emitEvent() placed after the if
CancelTask_emitAlways(id, rec) ==
  LET index == CancelIndex(State, id)
      S == IF index # 0 THEN CancelFound(State, id, index)
           ELSE EmitEvent(State)
  IN Install(S) /\ Call(rec, "cancelTask", id, index # 0, S)

CancelTask(id, rec) ==
  LET index == CancelIndex(State, id)
      S == IF index # 0 THEN CancelFound(State, id, index) ELSE State
  IN Install(S) /\ Call(rec, "cancelTask", id, index # 0, S)

Clear(rec) ==
  LET S == ClearBody(State)
  IN Install(S) /\ Call(rec, "clear", 0, TRUE, S)

ClearHistory(rec) ==
  LET S == ClearHistoryBody(State)
  IN Install(S) /\ Call(rec, "clearHistory", 0, TRUE, S)

\* the worker of running task id returns
WorkerResolve(id, rec) ==
  /\ id \in SeqToSet(runningTasks)
  /\ LET S == SettleBody(State, id, FALSE, NoReason)
     IN Install(S) /\ Call(rec, "workerResolve", id, TRUE, S)

\* the worker of running task id throws e
WorkerReject(id, e, rec) ==
  /\ id \in SeqToSet(runningTasks)
  /\ LET S == SettleBody(State, id, TRUE, e)
     IN Install(S) /\ Call(rec, "workerReject", id, TRUE, S)

\* number of chunks held by the buffers of tasks 1..n
RECURSIVE TotalOut(_, _)
TotalOut(ts, n) ==
  IF n = 0 THEN 0
  ELSE Len(ts[n].output) + Len(ts[n].thoughtOutput) + TotalOut(ts, n - 1)

\* the streaming callback of a worker calls appendOutput
AppendOutput(id, chunk, isThought, rec) ==
  /\ TotalOut(tasks, Len(tasks)) < MaxOut
  /\ LET S == AppendOutputBody(State, id, chunk, isThought)
     IN Install(S) /\ Call(rec, "appendOutput", id, TRUE, S)

\* onStreamChunk(chunk, isThought) of the worker started for task id: the
\* callback can be invoked at any time, also after the task has ended
OnStreamChunk(id, chunk, isThought) ==
  /\ TotalOut(tasks, Len(tasks)) < MaxOutStream
  /\ LET S == AppendOutputBody(State, id, chunk, isThought)
     IN Install(S) /\ Call(FALSE, "appendOutput", id, TRUE, S)

\* the call c of a handler, during which the listeners make the calls of
\* script; max bounds the number of tasks submitted
Reentrant(c, script, max) ==
  LET S == Invoke([State EXCEPT !.script = script], c)
  IN /\ c.op = "workerResolve" => c.arg \in SeqToSet(runningTasks)
     /\ Len(S.tasks) <= max
     /\ Install(S)
     /\ Call(FALSE, c.op, c.arg, TRUE, S)

\* addEventListener(listener): Set.add
AddEventListener(l, rec) ==
  LET S == IF l \in SeqToSet(eventListeners) THEN State
           ELSE [State EXCEPT !.eventListeners = Append(@, l)]
  IN Install(S) /\ Call(rec, "addEventListener", l, TRUE, S)

\* removeEventListener(listener): Set.delete
RemoveEventListener(l, rec) ==
  LET Other(x) == x # l
      S == [State EXCEPT !.eventListeners = SelectSeq(@, Other)]
  IN Install(S) /\ Call(rec, "removeEventListener", l, TRUE, S)

\* ---------------------------------------------------------- RateLimiter
\* the timestamps kept by filter((t) => now - t < windowMs)
Recent(ts, t0, windowMs) ==
  LET InWindow(t) == t0 - t < windowMs
  IN SelectSeq(ts, InWindow)

\* waitForSlot comparing with > : one request more is admitted per window
WaitForSlotBody_gt(c, d) ==
  LET kept == Recent(timestamps, now, rateArgs.windowMs)
      waitTime == kept[1] + rateArgs.windowMs - now + SlotBuffer
  IN IF Len(kept) > rateArgs.maxRequests /\ waitTime > 0
     THEN /\ timestamps' = kept
          /\ callers' = [callers EXCEPT ![c] = [pc |-> "sleeping",
                                                wakeAt |-> now + waitTime]]
          /\ UNCHANGED <<now, admissions>>
     ELSE /\ now + d <= MaxClock
          /\ now' = now + d
          /\ timestamps' = Append(kept, now + d)
          /\ admissions' = Append(admissions, now + d)
          /\ callers' = [callers EXCEPT ![c] = [pc |-> "done", wakeAt |-> 0]]

\* waitForSlot(maxRequests, windowMs) run by caller c from its first line
\* to its await or to its return; d is the time that passes between its two
\* reads of Date.now()
WaitForSlotBody(c, d) ==
  LET kept == Recent(timestamps, now, rateArgs.windowMs)
      waitTime == kept[1] + rateArgs.windowMs - now + SlotBuffer
  IN IF Len(kept) >= rateArgs.maxRequests /\ waitTime > 0
     THEN /\ timestamps' = kept
          /\ callers' = [callers EXCEPT ![c] = [pc |-> "sleeping",
                                                wakeAt |-> now + waitTime]]
          /\ UNCHANGED <<now, admissions>>
     ELSE /\ now + d <= MaxClock
          /\ now' = now + d
          /\ timestamps' = Append(kept, now + d)
          /\ admissions' = Append(admissions, now + d)
          /\ callers' = [callers EXCEPT ![c] = [pc |-> "done", wakeAt |-> 0]]

\* caller c calls waitForSlot
WaitForSlot(c) ==
  /\ callers[c].pc = "idle"
  /\ \E d \in 0..1 : WaitForSlotBody(c, d)
  /\ UNCHANGED <<queueVars, rateArgs, workerVars, sseVars>>

\* a timer after which the caller records its request without looking at
\* the window again
TimerFires_admit(c) ==
  /\ callers[c].pc = "sleeping"
  /\ now >= callers[c].wakeAt
  /\ timestamps' = Append(timestamps, now)
  /\ admissions' = Append(admissions, now)
  /\ callers' = [callers EXCEPT ![c] = [pc |-> "done", wakeAt |-> 0]]
  /\ UNCHANGED <<now, queueVars, rateArgs, workerVars, sseVars>>

\* the timer of caller c fires, not before its delay has passed, and the
\* caller calls waitForSlot again
TimerFires(c) ==
  /\ callers[c].pc = "sleeping"
  /\ now >= callers[c].wakeAt
  /\ \E d \in 0..1 : WaitForSlotBody(c, d)
  /\ UNCHANGED <<queueVars, rateArgs, workerVars, sseVars>>

\* time passes
Tick ==
  /\ now < MaxClock
  /\ now' = now + 1
  /\ UNCHANGED <<queueVars, rateVars, workerVars, sseVars>>

\* ------------------------------------------- the worker of a task
\* executeSummaryTask(taskData, taskId) -> summarizeSinglePdf ->
\* summarizeWithRemotePdfWithRetry.  A worker invocation runs from one await
\* to the next in one step; what it throws reaches the catch block of
\* runTask in the same step.  Its wait for the rate limiter (SpecRate) ends
\* at any time; reading the file and saving the note succeed.

\* the worker invocation of a task before it starts: the locals of
\* summarizeSinglePdf and of summarizeWithRemotePdfWithRetry, the note it
\* saved, the log of what it did, the times at which it sent its requests
\* and the id of the attachment in the data of its task
NewWorker ==
  [pc |-> "idle", attempt |-> 0, lastError |-> NoReason, delayMs |-> 0,
   usedLocalFallback |-> FALSE, finalMarkdown |-> <<>>, note |-> <<>>,
   log |-> <<>>, sentAt |-> <<>>, attachment |-> 0]

\* the entries of the log that are requests
RequestKinds == {"remote", "fallback", "local"}

\* the invocation new, reached from old in one step, with the time of the
\* requests sent in that step
Stamped(old, new) ==
  LET IsRequest(x) == x \in RequestKinds
      sent == SelectSeq(SubSeq(new.log, Len(old.log) + 1, Len(new.log)),
                        IsRequest)
  IN [new EXCEPT !.sentAt = @ \o [k \in 1..Len(sent) |-> now]]

\* String.prototype.includes on the messages above
Includes(msg, needle) == needle \in Mentions[msg]

\* isTransientStreamError(msg)
IsTransientStreamError(msg) ==
  \/ Includes(msg, "error in input stream")
  \/ Includes(msg, "network error")
  \/ Includes(msg, "econnreset")

\* shouldRetry of a catch block that retries whatever was thrown
ShouldRetry_always(msg) == TRUE

\* shouldRetry
ShouldRetry(msg) == Includes(msg, "524") \/ IsTransientStreamError(msg)

Min(a, b) == IF a <= b THEN a ELSE b

\* delayMs without the cap
DelayMs_noCap(attempt) == 2000 * 2 ^ attempt

\* delayMs = Math.min(10000, 2000 * 2 ** attempt)
DelayMs(attempt) == Min(10000, 2000 * 2 ^ attempt)

\* the notice of a retry: the reason, retryNum / maxRetries and
\* Math.round(delayMs / 1000)
RetryNotice(msg, attempt, maxRetries, delayMs) ==
  [kind |-> "retry",
   reason |-> IF Includes(msg, "524") THEN "524" ELSE "stream",
   retryNum |-> attempt + 1, maxRetries |-> maxRetries,
   seconds |-> (delayMs + 500) \div 1000]

\* onStreamChunk(chunk, isThought) of the worker of task id
StreamChunk(S, id, chunk, isThought) ==
  AppendOutputBody(S, id, chunk, isThought)

\* the worker of task id throws e: executeSummaryTask rethrows it and
\* runTask makes the task failed
Throw(S, w, id, e) ==
  [S |-> SettleBody(S, id, TRUE, e), w |-> [w EXCEPT !.pc = "done"]]

\* finalMarkdown with the banner in front of every result
FinalMarkdown_always(usedLocalFallback, md) == <<Banner, md>>

\* finalMarkdown
FinalMarkdown(usedLocalFallback, md) ==
  IF usedLocalFallback THEN <<Banner, md>> ELSE <<md>>

\* a request returned md: finalMarkdown is built and saveChildNote is called
SaveChildNote(S, w, md) ==
  [S |-> S,
   w |-> [w EXCEPT !.pc = "saving",
                   !.finalMarkdown = FinalMarkdown(w.usedLocalFallback, md),
                   !.log = Append(@, "save")]]

\* the fallback branch from the local text on; localText tells whether a
\* text is there
FallbackRequest(S, w, id, localText) ==
  IF ~localText
  THEN Throw(S, w, id, NewError(EmptyTextMessage))
  ELSE [S |-> S,
        w |-> [w EXCEPT !.pc = "fallback", !.log = Append(@, "fallback")]]

\* a fallback request that is sent again when it throws a 413
FallbackError_again(S, w, id, e) ==
  IF Includes(e.message, "413") THEN FallbackRequest(S, w, id, TRUE)
  ELSE Throw(S, w, id, e)

\* the fallback request threw e: it is awaited inside the catch block, with
\* no try around it, so e leaves summarizeSinglePdf
FallbackError(S, w, id, e) == Throw(S, w, id, e)

\* the catch block of summarizeSinglePdf rethrowing e when it is a 413
CatchRemoteError_rethrow(S, w, id, e, hasText) == Throw(S, w, id, e)

\* the catch block of summarizeSinglePdf around the remote request; hasText
\* tells whether attachment.text is there
CatchRemoteError(S, w, id, e, hasText) ==
  IF Includes(e.message, "413")
  THEN LET S1 == StreamChunk(S, id, FallbackNotice, FALSE)
           w1 == [w EXCEPT !.log = Append(@, "fallbackNotice")]
       IN IF hasText THEN FallbackRequest(S1, w1, id, TRUE)
          ELSE [S |-> S1,
                w |-> [w1 EXCEPT !.pc = "extract",
                                 !.log = Append(@, "extract")]]
  ELSE Throw(S, w, id, e)

\* the catch block of the retry loop comparing with <= : one retry more
CatchAttemptError_leq(S, w, id, e, hasText) ==
  IF ShouldRetry(e.message) /\ w.attempt <= prefs.retryOn524
  THEN LET delayMs == DelayMs(w.attempt)
           notice == RetryNotice(e.message, w.attempt, prefs.retryOn524,
                                 delayMs)
       IN [S |-> StreamChunk(S, id, notice, FALSE),
           w |-> [w EXCEPT !.pc = "backoff", !.lastError = e,
                           !.delayMs = delayMs,
                           !.log = @ \o <<"threw", "retryNotice">>]]
  ELSE CatchRemoteError(S, [w EXCEPT !.log = Append(@, "threw")], id, e,
                        hasText)

\* the catch block of the retry loop sending its notice as a thought
CatchAttemptError_thought(S, w, id, e, hasText) ==
  IF ShouldRetry(e.message) /\ w.attempt < prefs.retryOn524
  THEN LET delayMs == DelayMs(w.attempt)
           notice == RetryNotice(e.message, w.attempt, prefs.retryOn524,
                                 delayMs)
       IN [S |-> StreamChunk(S, id, notice, TRUE),
           w |-> [w EXCEPT !.pc = "backoff", !.lastError = e,
                           !.delayMs = delayMs,
                           !.log = @ \o <<"threw", "retryNotice">>]]
  ELSE CatchRemoteError(S, [w EXCEPT !.log = Append(@, "threw")], id, e,
                        hasText)

\* the catch block of the retry loop throwing lastError instead of e
CatchAttemptError_first(S, w, id, e, hasText) ==
  IF ShouldRetry(e.message) /\ w.attempt < prefs.retryOn524
  THEN LET delayMs == DelayMs(w.attempt)
           notice == RetryNotice(e.message, w.attempt, prefs.retryOn524,
                                 delayMs)
       IN [S |-> StreamChunk(S, id, notice, FALSE),
           w |-> [w EXCEPT !.pc = "backoff",
                           !.lastError = IF @ = NoReason THEN e ELSE @,
                           !.delayMs = delayMs,
                           !.log = @ \o <<"threw", "retryNotice">>]]
  ELSE CatchRemoteError(S, [w EXCEPT !.log = Append(@, "threw")], id,
                        IF w.lastError = NoReason THEN e ELSE w.lastError,
                        hasText)

\* the catch block of the retry loop of summarizeWithRemotePdfWithRetry:
\* attempt number w.attempt threw e.  What it throws is caught by
\* summarizeSinglePdf.
CatchAttemptError(S, w, id, e, hasText) ==
  IF ShouldRetry(e.message) /\ w.attempt < prefs.retryOn524
  THEN LET delayMs == DelayMs(w.attempt)
           notice == RetryNotice(e.message, w.attempt, prefs.retryOn524,
                                 delayMs)
       IN [S |-> StreamChunk(S, id, notice, FALSE),
           w |-> [w EXCEPT !.pc = "backoff", !.lastError = e,
                           !.delayMs = delayMs,
                           !.log = @ \o <<"threw", "retryNotice">>]]
  ELSE CatchRemoteError(S, [w EXCEPT !.log = Append(@, "threw")], id, e,
                        hasText)

\* the state X.S of the queue and the invocation X.w of task id become the
\* next state
InstallWorker(id, X) ==
  /\ InstallQueue(X.S)
  /\ Call(FALSE, "worker", id, TRUE, X.S)
  /\ workers' = [workers EXCEPT ![id] = Stamped(workers[id], X.w)]
  /\ UNCHANGED prefs

\* waitForSlot returned to the worker of running task id, which sends its
\* first request
StartRequest(id) ==
  /\ id \in SeqToSet(runningTasks)
  /\ workers[id].pc = "idle"
  /\ LET kind == IF prefs.pdfParseMode = "remote" THEN "remote" ELSE "local"
     IN InstallWorker(id, [S |-> State,
                           w |-> [workers[id] EXCEPT
                                    !.pc = kind, !.log = Append(@, kind)]])

\* submit(data) in the specifications of the workers: the worker invocation
\* of the new task has not started
SubmitWork(max) ==
  /\ Len(tasks) < max
  /\ LET S == SubmitBody(State)
     IN /\ InstallQueue(S)
        /\ Call(FALSE, "submit", Len(tasks) + 1, TRUE, S)
        /\ workers' = Append(workers, NewWorker)
        /\ UNCHANGED prefs

\* number of fragments of the responses in the buffers of tasks 1..n
RECURSIVE Streamed(_, _)
Streamed(ts, n) ==
  LET IsText(c) == c.kind = "text"
  IN IF n = 0 THEN 0
     ELSE Len(SelectSeq(ts[n].output, IsText))
          + Len(SelectSeq(ts[n].thoughtOutput, IsText))
          + Streamed(ts, n - 1)

\* the response of the remote request of task id delivers a fragment
RemoteStreams(id, isThought) ==
  /\ workers[id].pc = "remote"
  /\ InstallWorker(id, [S |-> StreamChunk(State, id, TextChunk, isThought),
                        w |-> workers[id]])

\* the remote request of task id returns its result
RemoteReturns(id) ==
  /\ workers[id].pc = "remote"
  /\ InstallWorker(id, SaveChildNote(State, workers[id], Markdown))

\* the remote request of task id throws e
RemoteThrows(id, e, hasText) ==
  /\ workers[id].pc = "remote"
  /\ InstallWorker(id, CatchAttemptError(State, workers[id], id, e, hasText))

\* the timer of a retry loop that does not count its attempts
BackoffElapsed_sameAttempt(id) ==
  /\ workers[id].pc = "backoff"
  /\ InstallWorker(id, [S |-> State,
                        w |-> [workers[id] EXCEPT
                                 !.pc = "remote",
                                 !.log = Append(@, "remote")]])

\* the timer of the retry loop of task id fires: attempt++ and the request
\* is sent again
BackoffElapsed(id) ==
  /\ workers[id].pc = "backoff"
  /\ InstallWorker(id, [S |-> State,
                        w |-> [workers[id] EXCEPT
                                 !.pc = "remote", !.attempt = @ + 1,
                                 !.log = Append(@, "remote")]])

\* attachment.item.attachmentText of task id settles: it throws, or it
\* gives no text, or it gives a text
ExtractSettles(id, outcome) ==
  /\ workers[id].pc = "extract"
  /\ InstallWorker(id,
       IF outcome = "throws"
       THEN Throw(State, workers[id], id, NewError(ExtractFailedMessage))
       ELSE FallbackRequest(State, workers[id], id, outcome = "text"))

\* the local-text request of the fallback of task id returns its result
FallbackReturns(id) ==
  /\ workers[id].pc = "fallback"
  /\ InstallWorker(id,
       SaveChildNote(State,
                     [workers[id] EXCEPT !.usedLocalFallback = TRUE],
                     Markdown))

\* the local-text request of the fallback of task id throws e
FallbackThrows(id, e) ==
  /\ workers[id].pc = "fallback"
  /\ InstallWorker(id, FallbackError(State, workers[id], id, e))

\* the request of local parse mode of task id returns its result
LocalReturns(id) ==
  /\ workers[id].pc = "local"
  /\ InstallWorker(id, SaveChildNote(State, workers[id], Markdown))

\* the request of local parse mode of task id throws e
LocalThrows(id, e) ==
  /\ workers[id].pc = "local"
  /\ InstallWorker(id, Throw(State, workers[id], id, e))

\* saveChildNote of task id returns: the note is saved, the worker returns
\* and runTask makes the task completed
SaveDone(id) ==
  /\ workers[id].pc = "saving"
  /\ InstallWorker(id,
       [S |-> SettleBody(State, id, FALSE, NoReason),
        w |-> [workers[id] EXCEPT !.pc = "done",
                                  !.note = workers[id].finalMarkdown]])

\* --------------------------------------------------- summarizeSelected
\* hasActiveTask looking at the pending list only
HasActiveTask_pendingOnly(S, ws, match) ==
  \E i \in 1..Len(S.queue) :
    S.tasks[S.queue[i]].status = "pending"
    /\ ws[S.queue[i]].attachment \in match

\* hasActiveTask(match): the predicate match is the set of the attachment
\* ids it accepts, and ws[id].attachment is the attachment id in task.data
HasActiveTask(S, ws, match) ==
  \/ \E i \in 1..Len(S.queue) :
       S.tasks[S.queue[i]].status = "pending"
       /\ ws[S.queue[i]].attachment \in match
  \/ \E i \in 1..Len(S.runningTasks) :
       S.tasks[S.runningTasks[i]].status = "running"
       /\ ws[S.runningTasks[i]].attachment \in match

\* the loop that fills uniqueTasks: the attachments of sel not seen before
\* in this invocation and without a pending or running task
RECURSIVE UniqueTasks(_, _, _, _)
UniqueTasks(S, ws, sel, seen) ==
  IF sel = <<>> THEN <<>>
  ELSE LET a == Head(sel)
           rest == UniqueTasks(S, ws, Tail(sel), seen \cup {a})
       IN IF a \in seen \/ HasActiveTask(S, ws, {a}) THEN rest
          ELSE <<a>> \o rest

\* submitBatch(items): submit for each of k items
RECURSIVE SubmitBatch(_, _)
SubmitBatch(S, k) == IF k = 0 THEN S ELSE SubmitBatch(SubmitBody(S), k - 1)

\* summarizeSelected() from the duplicate check to the call of submitBatch,
\* which run without an await between them; sel is what the invocation
\* collected before, n is prefs.concurrency
SummarizeSelected(sel, n) ==
  LET unique == UniqueTasks(State, workers, sel, {})
      S == IF unique = <<>> THEN State
           ELSE SubmitBatch(SetConcurrencyBody(State, n), Len(unique))
  IN /\ Len(tasks) + Len(unique) <= MaxTasksSelect
     /\ InstallQueue(S)
     /\ Call(TRUE, "summarizeSelected", Len(sel), unique # <<>>, S)
     /\ workers' = workers \o [k \in 1..Len(unique) |->
                                 [NewWorker EXCEPT !.attachment = unique[k]]]
     /\ UNCHANGED prefs

\* ------------------------------------------------ parseSSEResponse
\* TextDecoder.decode(value, {stream: true}): the characters of the bytes
\* bs after the bytes p kept from the chunk before, and the bytes of an
\* incomplete character kept for the next chunk
RECURSIVE Decode(_, _)
Decode(p, bs) ==
  IF bs = <<>> THEN [chars |-> <<>>, pending |-> p]
  ELSE IF Len(bs) = 1
  THEN LET b == bs[1]
           \* a byte that does not continue the lead byte kept in p makes
           \* the lead byte a replacement character
           bad == IF p = <<>> THEN <<>> ELSE <<"FFFD">>
       IN IF b = "C3" THEN [chars |-> bad, pending |-> <<b>>]
          ELSE IF b = "A9"
          THEN [chars |-> IF p = <<>> THEN <<"FFFD">> ELSE <<"E9">>,
                pending |-> <<>>]
          ELSE [chars |-> bad \o <<b>>, pending |-> <<>>]
  ELSE LET h == Len(bs) \div 2
           d1 == Decode(p, SubSeq(bs, 1, h))
           d2 == Decode(d1.pending, SubSeq(bs, h + 1, Len(bs)))
       IN [chars |-> d1.chars \o d2.chars, pending |-> d2.pending]

\* String.prototype.split("\n"): the pieces between the line feeds
RECURSIVE Split(_)
Split(cs) ==
  LET i == FindIndex(cs, "LF")
  IN IF i = 0 THEN <<cs>>
     ELSE <<SubSeq(cs, 1, i - 1)>> \o Split(SubSeq(cs, i + 1, Len(cs)))

StartsWith(cs, prefix) ==
  Len(cs) >= Len(prefix) /\ SubSeq(cs, 1, Len(prefix)) = prefix

\* String.prototype.trim
RECURSIVE Trim(_)
Trim(cs) ==
  IF cs = <<>> THEN cs
  ELSE IF Head(cs) \in Whitespace THEN Trim(Tail(cs))
  ELSE IF cs[Len(cs)] \in Whitespace THEN Trim(SubSeq(cs, 1, Len(cs) - 1))
  ELSE cs

\* what JSON.parse throws
SyntaxError ==
  [ok |-> FALSE, candidates |-> FALSE, parts |-> <<>>, content |-> <<>>]

\* the parts of a payload from its i-th character on, or SyntaxError when
\* the characters are no parts
RECURSIVE Parts(_, _)
Parts(cs, i) ==
  LET Part(th, c, next) ==
        LET rest == Parts(cs, next)
        IN IF ~rest.ok THEN SyntaxError
           ELSE [ok |-> TRUE, candidates |-> TRUE, content |-> <<>>,
                 parts |-> <<[text |-> Text(c), thought |-> th]>>
                           \o rest.parts]
  IN IF i = Len(cs)
     THEN [ok |-> TRUE, candidates |-> TRUE, parts |-> <<>>,
           content |-> <<>>]
     ELSE IF cs[i] = "?" /\ i + 1 < Len(cs) /\ cs[i + 1] \in TextChars
     THEN Part(TRUE, cs[i + 1], i + 2)
     ELSE IF cs[i] \in TextChars THEN Part(FALSE, cs[i], i + 1)
     ELSE SyntaxError

\* JSON.parse(jsonStr): the document with data.candidates[0].content.parts
\* or with data.choices[0].message.content; white space around the
\* document is allowed
JsonParse(cs) ==
  LET t == Trim(cs)
  IN IF Len(t) >= 2 /\ t[1] = "{" /\ t[Len(t)] = "}" THEN Parts(t, 2)
     ELSE IF Len(t) = 3 /\ t[1] = "<" /\ t[3] = ">" /\ t[2] \in TextChars
     THEN [ok |-> TRUE, candidates |-> FALSE, parts |-> <<>>,
           content |-> Text(t[2])]
     ELSE SyntaxError

\* the locals of parseSSEResponse and the calls of onStreamChunk
Parser ==
  [pending |-> pending, buffer |-> buffer, markdown |-> markdown,
   thoughtsMarkdown |-> thoughtsMarkdown, fragments |-> fragments]

NewParser ==
  [pending |-> <<>>, buffer |-> <<>>, markdown |-> <<>>,
   thoughtsMarkdown |-> <<>>, fragments |-> <<>>]

\* a loop over the parts that adds the text of a thought to the answer
RECURSIVE ProcessParts_misrouted(_, _, _)
ProcessParts_misrouted(P, parts, i) ==
  IF i > Len(parts) THEN P
  ELSE LET part == parts[i]
           Called(th) == Append(P.fragments,
                                [text |-> part.text, isThought |-> th])
       IN IF part.text # <<>>
          THEN ProcessParts_misrouted(
                 [P EXCEPT !.markdown = @ \o part.text,
                           !.fragments = Called(part.thought)],
                 parts, i + 1)
          ELSE ProcessParts_misrouted(P, parts, i + 1)

\* the for loop over the parts of one payload
RECURSIVE ProcessParts(_, _, _)
ProcessParts(P, parts, i) ==
  IF i > Len(parts) THEN P
  ELSE LET part == parts[i]
           Called(th) == Append(P.fragments,
                                [text |-> part.text, isThought |-> th])
       IN IF part.thought /\ part.text # <<>>
          THEN ProcessParts([P EXCEPT !.thoughtsMarkdown = @ \o part.text,
                                      !.fragments = Called(TRUE)],
                            parts, i + 1)
          ELSE IF part.text # <<>>
          THEN ProcessParts([P EXCEPT !.markdown = @ \o part.text,
                                      !.fragments = Called(FALSE)],
                            parts, i + 1)
          ELSE ProcessParts(P, parts, i + 1)

\* a loop body in which a payload that is not JSON discards what the lines
\* before it added
ProcessLine_discard(P, line) ==
  IF ~StartsWith(line, DataPrefix) THEN P
  ELSE LET jsonStr == Trim(SubSeq(line, Len(DataPrefix) + 1, Len(line)))
       IN IF jsonStr = <<>> \/ jsonStr = Done THEN P
          ELSE LET data == JsonParse(jsonStr)
               IN IF ~data.ok
                  THEN [P EXCEPT !.markdown = <<>>, !.thoughtsMarkdown = <<>>]
                  ELSE ProcessParts(P, data.parts, 1)

\* the body of the loop over the complete lines, also applied to what is
\* left in the buffer when the stream ends
ProcessLine(P, line) ==
  IF ~StartsWith(line, DataPrefix) THEN P
  ELSE LET jsonStr == Trim(SubSeq(line, Len(DataPrefix) + 1, Len(line)))
       IN IF jsonStr = <<>> \/ jsonStr = Done THEN P
          ELSE LET data == JsonParse(jsonStr)
               IN IF ~data.ok THEN P
                  ELSE ProcessParts(P, data.parts, 1)

RECURSIVE ProcessLines(_, _, _)
ProcessLines(P, lines, i) ==
  IF i > Len(lines) THEN P
  ELSE ProcessLines(ProcessLine(P, lines[i]), lines, i + 1)

\* one iteration of the read loop that empties the buffer after the split
Feed_dropRest(P, value) ==
  LET d == Decode(P.pending, value)
      lines == Split(P.buffer \o d.chars)
      P1 == [P EXCEPT !.pending = d.pending, !.buffer = <<>>]
  IN ProcessLines(P1, SubSeq(lines, 1, Len(lines) - 1), 1)

\* one iteration of the read loop: the chunk value is decoded and added to
\* the buffer, the complete lines are processed and the last piece is kept
Feed(P, value) ==
  LET d == Decode(P.pending, value)
      lines == Split(P.buffer \o d.chars)
      P1 == [P EXCEPT !.pending = d.pending, !.buffer = lines[Len(lines)]]
  IN ProcessLines(P1, SubSeq(lines, 1, Len(lines) - 1), 1)

\* an end of the stream that returns the texts as they were collected
Finish_untrimmed(P) ==
  LET P1 == ProcessLine(P, P.buffer)
  IN [P |-> P1,
      result |->
        [markdown |-> P1.markdown,
         thoughtsMarkdown |-> IF P1.thoughtsMarkdown = <<>> THEN <<>>
                              ELSE <<P1.thoughtsMarkdown>>]]

\* the end of the stream: what is left in the buffer is processed and the
\* result is built
Finish(P) ==
  LET P1 == ProcessLine(P, P.buffer)
      th == Trim(P1.thoughtsMarkdown)
  IN [P |-> P1,
      result |->
        IF P1.markdown = <<>> /\ P1.thoughtsMarkdown = <<>>
        THEN [markdown |-> <<>>, thoughtsMarkdown |-> <<>>]
        ELSE [markdown |-> Trim(P1.markdown),
              thoughtsMarkdown |-> IF th = <<>> THEN <<>> ELSE <<th>>]]

InstallParser(P) ==
  /\ pending' = P.pending
  /\ buffer' = P.buffer
  /\ markdown' = P.markdown
  /\ thoughtsMarkdown' = P.thoughtsMarkdown
  /\ fragments' = P.fragments

\* where a chunk ends when the parser is left in P
SplitKinds(P) ==
  (IF P.pending # <<>> THEN {"character"} ELSE {})
  \cup (IF P.buffer # <<>> THEN {"line"} ELSE {})
  \cup (IF \E k \in 1..(Len(DataPrefix) - 1) :
             P.buffer = SubSeq(DataPrefix, 1, k)
        THEN {"prefix"} ELSE {})

\* reader.read() returns the next n bytes of the response
ReadChunk(n) ==
  /\ reader
  /\ result = <<>>
  /\ offset + n <= Len(body)
  /\ LET P == Feed(Parser, SubSeq(body, offset + 1, offset + n))
     IN /\ InstallParser(P)
        /\ splits' = IF offset + n < Len(body)
                     THEN splits \cup SplitKinds(P) ELSE splits
  /\ offset' = offset + n
  /\ UNCHANGED <<body, result, reader, queueVars, rateVars, workerVars,
                 now>>

\* reader.read() returns done
ReadDone ==
  /\ reader
  /\ result = <<>>
  /\ offset = Len(body)
  /\ LET F == Finish(Parser)
     IN InstallParser(F.P) /\ result' = <<F.result>>
  /\ UNCHANGED <<body, offset, splits, reader, queueVars, rateVars,
                 workerVars, now>>

\* res.text(): the characters of the whole body
ResText(bytes) ==
  LET d == Decode(<<>>, bytes)
  IN d.chars \o (IF d.pending = <<>> THEN <<>> ELSE <<"FFFD">>)

\* parseSingleResponse: the for loop over the parts of the body parsed as
\* one JSON document
RECURSIVE ProcessDocument(_, _, _)
ProcessDocument(P, parts, i) ==
  IF i > Len(parts) THEN P
  ELSE LET part == parts[i]
           Called(t, th) == Append(P.fragments,
                                   [text |-> t, isThought |-> th])
       IN IF part.thought /\ part.text # <<>>
          THEN ProcessDocument(
                 [P EXCEPT !.thoughtsMarkdown = @ \o part.text \o <<"LF">>,
                           !.fragments = Called(part.text \o <<"LF">>, TRUE)],
                 parts, i + 1)
          ELSE IF part.text # <<>>
          THEN ProcessDocument(
                 [P EXCEPT !.markdown = @ \o part.text,
                           !.fragments = Called(part.text, FALSE)],
                 parts, i + 1)
          ELSE ProcessDocument(P, parts, i + 1)

\* parseSingleResponse(text, onStreamChunk): the lines of the text are
\* processed as events; a text without any is parsed as one JSON document
ParseSingleResponse(text) ==
  LET P1 == ProcessLines(NewParser, Split(text), 1)
      data == JsonParse(text)
      P2 == IF P1.markdown # <<>> \/ P1.thoughtsMarkdown # <<>> \/ ~data.ok
            THEN P1
            ELSE IF data.candidates THEN ProcessDocument(P1, data.parts, 1)
            ELSE IF data.content # <<>>
            THEN [P1 EXCEPT
                    !.markdown = data.content,
                    !.fragments = Append(@, [text |-> data.content,
                                             isThought |-> FALSE])]
            ELSE P1
      th == Trim(P2.thoughtsMarkdown)
  IN [P |-> P2,
      result |-> [markdown |-> Trim(P2.markdown),
                  thoughtsMarkdown |-> IF th = <<>> THEN <<>> ELSE <<th>>]]

\* there is no reader: the whole body is read and parsed at once
ReadText ==
  /\ ~reader
  /\ result = <<>>
  /\ LET F == ParseSingleResponse(ResText(body))
     IN InstallParser(F.P) /\ result' = <<F.result>>
  /\ offset' = Len(body)
  /\ UNCHANGED <<body, splits, reader, queueVars, rateVars, workerVars, now>>

\* ids passed to the handlers when n tasks are explored: the ids of the
\* tasks and one id that no task has
IdsFor(n) == 1..(n + 1)

\* the worker of running task id settles, one way or the other
Settle(id, rec) ==
  WorkerResolve(id, rec) \/ \E e \in Thrown : WorkerReject(id, e, rec)

\* the queue's operations and the completions of its workers, on n tasks
\* whose workers throw the values in thrown
QueueNext(n, rec, thrown) ==
  \/ Submit(n, rec)
  \/ \E k \in 0..MaxConcurrency : SetConcurrency(k, rec)
  \/ \E id \in IdsFor(n) : CancelTask(id, rec)
  \/ Clear(rec)
  \/ ClearHistory(rec)
  \/ \E id \in 1..n : WorkerResolve(id, rec)
  \/ \E id \in 1..n, e \in thrown : WorkerReject(id, e, rec)

\* the queue with workers that return or throw an Error
Next == QueueNext(MaxTasks, FALSE, {ThrownError})

Spec == Init /\ [][Next]_vars

\* the queue on fewer tasks, with workers that throw any value
NextLive == QueueNext(MaxTasksLive, FALSE, Thrown)

SpecLive == Init /\ [][NextLive]_vars

\* the same, where every worker invocation eventually settles
FairSpec == SpecLive /\ \A id \in 1..MaxTasksLive : WF_vars(Settle(id, FALSE))

\* the queue on fewer tasks, with streamed output and every call recorded
NextIO ==
  \/ QueueNext(MaxTasksIO, TRUE, {ThrownError})
  \/ \E id \in IdsFor(MaxTasksIO), c \in Chunks, th \in BOOLEAN :
       AppendOutput(id, c, th, TRUE)

SpecIO == Init /\ [][NextIO]_vars

\* the queue on fewer tasks, with workers that stream fragments
NextStream ==
  \/ Submit(MaxTasksStream, FALSE)
  \/ \E k \in 0..MaxConcurrency : SetConcurrency(k, FALSE)
  \/ \E id \in IdsFor(MaxTasksStream) : CancelTask(id, FALSE)
  \/ \E id \in 1..MaxTasksStream : WorkerResolve(id, FALSE)
  \/ \E id \in IdsFor(MaxTasksStream), c \in StreamChunks, th \in BOOLEAN :
       OnStreamChunk(id, c, th)

SpecStream == Init /\ [][NextStream]_vars

\* batches of tasks on the queue as constructed: no operation removes
\* history entries before the cap of the class is reached
NextBatch ==
  \/ Submit(MaxTasksBatch, FALSE)
  \/ \E k \in 0..MaxConcurrency : SetConcurrency(k, FALSE)
  \/ \E id \in IdsFor(MaxTasksBatch) : CancelTask(id, FALSE)
  \/ \E id \in 1..MaxTasksBatch : WorkerResolve(id, FALSE)
  \/ \E id \in 1..MaxTasksBatch : WorkerReject(id, ThrownError, FALSE)

SpecBatch == InitBatch /\ [][NextBatch]_vars

\* batches that are cleared while their first tasks run and stream output
NextClear ==
  \/ Submit(MaxTasksClear, FALSE)
  \/ \E k \in 0..MaxConcurrency : SetConcurrency(k, FALSE)
  \/ Clear(FALSE)
  \/ \E id \in 1..MaxTasksClear : WorkerResolve(id, FALSE)
  \/ \E id \in IdsFor(MaxTasksClear), c \in Chunks, th \in BOOLEAN :
       AppendOutput(id, c, th, FALSE)

SpecClear == Init /\ [][NextClear]_vars

\* the queue on fewer tasks, with listeners that subscribe and unsubscribe
\* and with every call recorded
NextListen ==
  \/ QueueNext(MaxTasksListen, TRUE, {ThrownError})
  \/ \E l \in Listeners : AddEventListener(l, TRUE)
  \/ \E l \in Listeners : RemoveEventListener(l, TRUE)

SpecListen == Init /\ [][NextListen]_vars

\* the same, with streamed output
NextNotify ==
  \/ NextListen
  \/ \E id \in IdsFor(MaxTasksListen), c \in Chunks, th \in BOOLEAN :
       AppendOutput(id, c, th, TRUE)

SpecNotify == Init /\ [][NextNotify]_vars

\* the remote messages of the transient class that name no other status
TransientMessages == {"remote: 524 timeout", "Error in input stream"}

\* one task whose worker sends requests that return, stream or throw
NextRetry ==
  \/ SubmitWork(1)
  \/ \E id \in 1..Len(workers) : StartRequest(id)
  \/ \E id \in 1..Len(workers), th \in BOOLEAN :
       Streamed(tasks, Len(tasks)) < MaxOutRetry /\ RemoteStreams(id, th)
  \/ \E id \in 1..Len(workers) : RemoteReturns(id)
  \/ \E id \in 1..Len(workers), m \in RemoteMessages, hasText \in BOOLEAN :
       RemoteThrows(id, RequestError(m), hasText)
  \/ \E id \in 1..Len(workers) : BackoffElapsed(id)
  \/ \E id \in 1..Len(workers), outcome \in {"throws", "empty", "text"} :
       ExtractSettles(id, outcome)
  \/ \E id \in 1..Len(workers) : FallbackReturns(id)
  \/ \E id \in 1..Len(workers), m \in LocalMessages :
       FallbackThrows(id, RequestError(m))
  \/ \E id \in 1..Len(workers) : LocalReturns(id)
  \/ \E id \in 1..Len(workers), m \in LocalMessages :
       LocalThrows(id, RequestError(m))
  \/ \E id \in 1..Len(workers) : SaveDone(id)

SpecRetry == InitRetry /\ [][NextRetry]_vars

\* the steps of the retry loop for n tasks in remote mode, whose requests
\* return or throw transient errors
RetryLoopNext(n) ==
  \/ SubmitWork(n)
  \/ \E id \in 1..Len(workers) : StartRequest(id)
  \/ \E id \in 1..Len(workers) : RemoteReturns(id)
  \/ \E id \in 1..Len(workers), m \in TransientMessages :
       RemoteThrows(id, RequestError(m), FALSE)
  \/ \E id \in 1..Len(workers) : BackoffElapsed(id)
  \/ \E id \in 1..Len(workers) : SaveDone(id)

\* one task with a large retry budget
NextBackoff == RetryLoopNext(1)

SpecBackoff == InitBackoff /\ [][NextBackoff]_vars

\* tasks that run one after the other
NextFresh == RetryLoopNext(MaxTasksFresh)

SpecFresh == InitFresh /\ [][NextFresh]_vars

\* parseSSEResponse reading a response in chunks of any length
NextSSE ==
  \/ \E n \in 1..Len(body) : ReadChunk(n)
  \/ ReadDone

SpecSSE == InitSSE /\ [][NextSSE]_vars

\* parseSSEResponse on either path; the reader delivers chunks of MaxChunk
\* bytes, or the rest of the body
NextParse ==
  \/ \E n \in {MaxChunk, Len(body) - offset} : n >= 1 /\ ReadChunk(n)
  \/ ReadDone
  \/ ReadText

SpecParse == InitParse /\ [][NextParse]_vars

\* the messages of the errors of the requests in SpecLimited
LimitedMessages == {"remote: 524 timeout", "remote: 413 too large"}

\* the worker of running task id has not called waitForSlot yet
Entering(id) ==
  /\ id \in SeqToSet(runningTasks)
  /\ workers[id].pc = "idle"
  /\ callers[id].pc = "idle"

\* workers that call waitForSlot before their first request while time
\* passes; the worker of task id is caller id of the rate limiter.  A worker
\* calls waitForSlot in the step that starts it, so no time passes before
\* the call, and the timer of a retry fires after some time has passed.
NextLimited ==
  \/ SubmitWork(MaxTasksLimited)
  \/ \E id \in 1..Len(workers) : Entering(id) /\ WaitForSlot(id)
  \/ \E id \in 1..Len(workers) : TimerFires(id)
  \/ \E id \in 1..Len(workers) :
       callers[id].pc = "done" /\ StartRequest(id)
  \/ \E id \in 1..Len(workers) : RemoteReturns(id)
  \/ \E id \in 1..Len(workers), m \in LimitedMessages :
       RemoteThrows(id, RequestError(m), TRUE)
  \/ \E id \in 1..Len(workers) :
       /\ workers[id].pc = "backoff"
       /\ now > workers[id].sentAt[Len(workers[id].sentAt)]
       /\ BackoffElapsed(id)
  \/ \E id \in 1..Len(workers) : FallbackReturns(id)
  \/ \E id \in 1..Len(workers) : LocalReturns(id)
  \/ \E id \in 1..Len(workers) : SaveDone(id)
  \/ /\ now < MaxClockLimited
     /\ \A id \in 1..Len(workers) : ~Entering(id)
     /\ Tick

SpecLimited == InitLimited /\ [][NextLimited]_vars

\* the message of the error of a request with the local text in SpecOnce
OnceLocalMessage == "local: 413 too large"

\* the caller of waitForSlot that stands for the workers of the tasks of
\* other invocations, which share the rate limiter
OtherCaller == MaxCallers

\* every step of summarizeSinglePdf for the worker of task id, caller id of
\* the rate limiter, while another caller takes slots of the window and time
\* passes
NextOnce ==
  \/ SubmitWork(MaxTasksOnce)
  \/ \E c \in Callers : (c = OtherCaller \/ Entering(c)) /\ WaitForSlot(c)
  \/ \E c \in Callers : TimerFires(c)
  \/ \E id \in 1..Len(workers) :
       callers[id].pc = "done" /\ StartRequest(id)
  \/ \E id \in 1..Len(workers) : RemoteReturns(id)
  \/ \E id \in 1..Len(workers), m \in LimitedMessages, hasText \in BOOLEAN :
       RemoteThrows(id, RequestError(m), hasText)
  \/ \E id \in 1..Len(workers) :
       /\ workers[id].pc = "backoff"
       /\ now > workers[id].sentAt[Len(workers[id].sentAt)]
       /\ BackoffElapsed(id)
  \/ \E id \in 1..Len(workers), outcome \in {"throws", "empty", "text"} :
       ExtractSettles(id, outcome)
  \/ \E id \in 1..Len(workers) : FallbackReturns(id)
  \/ \E id \in 1..Len(workers) :
       FallbackThrows(id, RequestError(OnceLocalMessage))
  \/ \E id \in 1..Len(workers) : LocalReturns(id)
  \/ \E id \in 1..Len(workers) :
       LocalThrows(id, RequestError(OnceLocalMessage))
  \/ \E id \in 1..Len(workers) : SaveDone(id)
  \/ /\ now < MaxClockOnce
     /\ \A id \in 1..Len(workers) : ~Entering(id)
     /\ Tick

SpecOnce == InitOnce /\ [][NextOnce]_vars

\* the calls a listener makes while it is notified, the calls made from
\* outside, and the calls the listeners make during one handler
ListenerCalls ==
  {[op |-> "submit", arg |-> 0], [op |-> "clear", arg |-> 0],
   [op |-> "clearHistory", arg |-> 0]}
  \cup {[op |-> "cancelTask", arg |-> id] : id \in 1..MaxTasksReenter}
  \cup {[op |-> "setConcurrency", arg |-> n] : n \in {1, MaxConcurrency}}

OutsideCalls ==
  ListenerCalls
  \cup {[op |-> "workerResolve", arg |-> id] : id \in 1..MaxTasksReenter}

Scripts == UNION {[1..k -> ListenerCalls] : k \in 0..MaxReentry}

\* the handlers of the queue called while listeners are registered that
\* call handlers of the queue when they are notified
NextReenter ==
  \/ \E l \in Listeners : AddEventListener(l, FALSE)
  \/ \E c \in OutsideCalls, script \in Scripts :
       /\ script = <<>> \/ eventListeners # <<>>
       /\ Reentrant(c, script, MaxTasksReenter)

SpecReenter == Init /\ [][NextReenter]_vars

\* invocations of summarizeSelected that reach their duplicate check in any
\* order, while tasks end, are cancelled and the queue is cleared
NextSelect ==
  \/ \E sel \in Selections, n \in 1..MaxConcurrency : SummarizeSelected(sel, n)
  \/ \E id \in 1..Len(tasks) : WorkerResolve(id, FALSE)
  \/ \E id \in 1..Len(tasks) : WorkerReject(id, ThrownError, FALSE)
  \/ \E id \in 1..Len(tasks) : CancelTask(id, FALSE)
  \/ Clear(FALSE)

SpecSelect == Init /\ [][NextSelect]_vars

\* concurrent callers of the rate limiter
NextRate ==
  \/ \E c \in Callers : WaitForSlot(c)
  \/ \E c \in Callers : TimerFires(c)
  \/ Tick

SpecRate == InitRate /\ [][NextRate]_vars

\* time advances and every timer fires
SpecRateLive ==
  /\ SpecRate
  /\ WF_vars(Tick)
  /\ \A c \in Callers : WF_vars(TimerFires(c))

\* ===================================================================
\* Properties
\* ===================================================================
Last(s) == s[Len(s)]

\* number of the three collections that hold task id
InCount(id) ==
  (IF id \in SeqToSet(queue) THEN 1 ELSE 0)
  + (IF id \in SeqToSet(runningTasks) THEN 1 ELSE 0)
  + (IF id \in SeqToSet(completedTasks) THEN 1 ELSE 0)

NoDup(s) == \A i, j \in 1..Len(s) : i # j => s[i] # s[j]

\* tryRunNext left no capacity idle
NoIdleCapacity(q, r, c) == ~(Len(q) > 0 /\ Len(r) < c)

\* C1 as stated: the running map never holds more tasks than the concurrency
\* limit, also after a decrease of the limit while tasks are running.
C1_ConcurrencyBound == Len(runningTasks) <= concurrency

\* C1 amended: a step that leaves more running tasks than the limit admitted
\* no task, and is either a setConcurrency call that lowered the limit or
\* started from a state already above the limit; running tasks are never
\* evicted, so the excess lasts until enough of them finish.
C1_AdmissionBound ==
  [][Len(runningTasks') > concurrency' =>
       /\ admitLog' = admitLog
       /\ Len(runningTasks') <= Len(runningTasks)
       /\ Len(runningTasks) > concurrency \/ concurrency' < concurrency]_vars

\* C1 witness: setConcurrency lowered the limit below the number of running
\* tasks, and a pending task is waiting behind them.
C1_Witness ==
  /\ Len(runningTasks) > concurrency
  /\ Len(queue) > 0

\* C2: when every worker invocation eventually settles, every submitted task
\* eventually has a terminal status, and a terminal status never changes.
C2_NoLostWork ==
  /\ \A id \in 1..MaxTasksLive :
       (Len(tasks) >= id) ~> (Len(tasks) >= id /\ tasks[id].status \in Terminal)
  /\ [][\A id \in 1..Len(tasks) :
          tasks[id].status \in Terminal =>
            tasks'[id].status = tasks[id].status]_vars

\* C2 witness: all tasks were submitted, admitted and ended, one completed
\* and one failed.
C2_Witness ==
  /\ Len(tasks) = MaxTasksLive
  /\ Len(admitLog) = MaxTasksLive
  /\ \A id \in 1..Len(tasks) : tasks[id].status \in Terminal
  /\ \E id \in 1..Len(tasks) : tasks[id].status = "completed"
  /\ \E id \in 1..Len(tasks) : tasks[id].status = "failed"

\* C3: tasks become running in submission order: the ids in the order of
\* admission are increasing.
C3_FifoAdmission ==
  \A i, j \in 1..Len(admitLog) : i < j => admitLog[i] < admitLog[j]

\* C3 witness: three tasks were admitted one after the other, around a task
\* that was cancelled between them.
C3_Witness ==
  /\ Len(admitLog) >= 3
  /\ \E id \in 1..Len(tasks) :
       /\ tasks[id].status = "cancelled"
       /\ admitLog[1] < id
       /\ id < Last(admitLog)

\* C4 as stated: every submitted task is in exactly one of the pending list,
\* the running map and the history, also after clearHistory and trimming.
C4_ExactlyOne == \A id \in 1..Len(tasks) : InCount(id) = 1

\* C4 amended: every submitted task is in at most one of the three
\* collections and occurs there once; a task that is not terminal is in
\* exactly one; only a terminal task can be in none (dropped from the history
\* by trimming or clearHistory).
C4_AtMostOne ==
  /\ NoDup(queue) /\ NoDup(runningTasks) /\ NoDup(completedTasks)
  /\ \A id \in 1..Len(tasks) :
       /\ InCount(id) <= 1
       /\ tasks[id].status \notin Terminal => InCount(id) = 1

\* C4 witness: the history is full and a terminal task is in no collection.
C4_Witness ==
  /\ Len(completedTasks) = MaxCompletedHistory
  /\ \E id \in 1..Len(tasks) :
       InCount(id) = 0 /\ tasks[id].status \in Terminal

\* C5: the promise of a task is settled by one call, fulfilled exactly when
\* the task is completed, rejected exactly when it is failed or cancelled,
\* and untouched while the task is pending or running.
C5_PromiseSettlement ==
  \A id \in 1..Len(tasks) :
    /\ promises[id].calls <= 1
    /\ promises[id].state = "fulfilled" <=> tasks[id].status = "completed"
    /\ promises[id].state = "rejected" <=>
         tasks[id].status \in {"failed", "cancelled"}
    /\ tasks[id].status \in {"pending", "running"} =>
         promises[id].state = "pending" /\ promises[id].calls = 0
    /\ tasks[id].status \in Terminal => promises[id].calls = 1

\* C5 witness: one promise fulfilled, one rejected, one still pending.
C5_Witness ==
  \E i, j, k \in 1..Len(tasks) :
    /\ promises[i].state = "fulfilled"
    /\ promises[j].state = "rejected"
    /\ promises[k].state = "pending"

\* C6: cancelTask(id) of a pending task returns true, removes it from the
\* pending list keeping the order of the others, makes it cancelled with an
\* end time, appends it to the history and rejects its promise; a cancelled
\* task stays cancelled and is never running.
C6_CancelPending ==
  [][/\ \A id \in SeqToSet(queue) :
          CancelTask(id, FALSE) =>
            LET Other(x) == x # id
            IN /\ lastCall'.ret = TRUE
               /\ queue' = SelectSeq(queue, Other)
               /\ Len(queue') = Len(queue) - 1
               /\ tasks'[id].status = "cancelled"
               /\ tasks'[id].endTime # NoTime
               /\ tasks'[id].endTime = now
               /\ Len(completedTasks') > 0
               /\ Last(completedTasks') = id
               /\ promises'[id].state = "rejected"
               /\ runningTasks' = runningTasks
     /\ \A id \in 1..Len(tasks) :
          tasks[id].status = "cancelled" =>
            /\ tasks'[id].status = "cancelled"
            /\ id \notin SeqToSet(runningTasks')
            /\ id \notin SeqToSet(queue')]_vars

\* C6 witness: a task was cancelled by cancelTask out of the pending list,
\* between two tasks that are pending.
C6_Witness ==
  /\ Len(queue) >= 2
  /\ \E id \in 1..Len(tasks) :
       /\ tasks[id].status = "cancelled"
       /\ promises[id].reason = NewError("Task cancelled")
       /\ queue[1] < id
       /\ id < queue[2]

\* C7: cancelTask(id) of a task that is not in the pending list (running,
\* terminal or unknown) returns false, notifies no listener, settles no
\* promise and leaves every task and every collection as it was.
C7_CancelPendingOnly ==
  [][(/\ lastCall'.op = "cancelTask"
      /\ lastCall'.arg \notin SeqToSet(queue)
      /\ CancelTask(lastCall'.arg, TRUE)) =>
       /\ lastCall'.ret = FALSE
       /\ lastCall'.emits = 0
       /\ UNCHANGED <<queue, runningTasks, completedTasks, tasks, promises,
                      concurrency, admitLog>>]_vars

\* C7 witness: cancelTask has just returned false for a running task that
\* holds streamed output, while another task is cancelled already.
C7_Witness ==
  /\ lastCall.op = "cancelTask"
  /\ lastCall.ret = FALSE
  /\ lastCall.arg \in SeqToSet(runningTasks)
  /\ tasks[lastCall.arg].output # <<>>
  /\ \E id \in 1..Len(tasks) : tasks[id].status = "cancelled"

\* C8: after every operation, the pending list is empty or the running map
\* is at (or above) the concurrency limit.
C8_WorkConservation == NoIdleCapacity(queue, runningTasks, concurrency)

\* C8 witness: the limit was raised, tasks were admitted up to it and others
\* are still waiting.
C8_Witness ==
  /\ Len(queue) > 1
  /\ Len(runningTasks) = concurrency
  /\ concurrency > 1

\* what the scheduler does when the worker of task id throws e, with the
\* rejection reason it has to use
WorkerThrowsHandled(id, e, reason) ==
  /\ tasks'[id].status = "failed"
  /\ tasks'[id].error = e.message
  /\ promises'[id].state = "rejected"
  /\ promises'[id].reason = reason
  /\ id \notin SeqToSet(runningTasks')
  /\ Len(completedTasks') > 0
  /\ Last(completedTasks') = id
  /\ NoIdleCapacity(queue', runningTasks', concurrency')
  /\ (Len(queue) > 0 /\ Len(runningTasks) <= concurrency) =>
       /\ Head(queue) \in SeqToSet(runningTasks')
       /\ tasks'[Head(queue)].status = "running"

\* C9 as stated: whatever the worker throws, the task fails with the thrown
\* value's message, the promise is rejected with the very object thrown, the
\* task moves to the history and admission continues.
C9_WorkerThrows ==
  [][\A id \in SeqToSet(runningTasks), e \in Thrown :
       WorkerReject(id, e, FALSE) => WorkerThrowsHandled(id, e, e)]_vars

\* C9 amended: the promise is rejected with the very object thrown when that
\* object is an Error instance; any other thrown value v is reported as
\* String(v) in the error field and the promise is rejected with a new Error
\* whose message is String(v).  The rest is as stated.
C9_WorkerThrowsAmended ==
  [][\A id \in SeqToSet(runningTasks), e \in Thrown :
       WorkerReject(id, e, FALSE) =>
         WorkerThrowsHandled(id, e,
                             IF e.isError THEN e ELSE NewError(e.message))]_vars

\* C9 witness: a worker threw an Error, its task is failed, in the history
\* and rejected with that object, and a task submitted later was admitted
\* and is running.
C9_Witness ==
  \E id \in SeqToSet(completedTasks) :
    /\ tasks[id].status = "failed"
    /\ promises[id].reason = ThrownError
    /\ Len(admitLog) >= 2
    /\ Last(admitLog) > id
    /\ Last(admitLog) \in SeqToSet(runningTasks)

\* C10: every failed or cancelled task has its error stored in its error
\* field, and the promise was rejected with that same error.
C10_ErrorStored ==
  \A id \in 1..Len(tasks) :
    tasks[id].status \in {"failed", "cancelled"} =>
      /\ tasks[id].error # Undefined
      /\ promises[id].state = "rejected"
      /\ promises[id].reason.message = tasks[id].error


\* the fields of a task other than its two buffers
NoBuffers(t) == [t EXCEPT !.output = <<>>, !.thoughtOutput = <<>>]

\* C11: appendOutput(id, chunk, isThought) changes nothing and notifies no
\* listener unless task id is in the running map; when it is, the chunk is
\* appended to thoughtOutput if isThought and to output otherwise, the other
\* buffer, the other fields and every other task are unchanged, and the
\* listeners are notified once.
C11_AppendOutput ==
  [][\A c \in Chunks, th \in BOOLEAN :
       (/\ lastCall'.op = "appendOutput"
        /\ AppendOutput(lastCall'.arg, c, th, TRUE)) =>
         LET id == lastCall'.arg
         IN /\ UNCHANGED <<queue, runningTasks, completedTasks, promises,
                           concurrency, admitLog>>
            /\ IF id \in SeqToSet(runningTasks)
               THEN /\ lastCall'.emits = 1
                    /\ tasks'[id].thoughtOutput =
                         IF th THEN Append(tasks[id].thoughtOutput, c)
                         ELSE tasks[id].thoughtOutput
                    /\ tasks'[id].output =
                         IF th THEN tasks[id].output
                         ELSE Append(tasks[id].output, c)
                    /\ NoBuffers(tasks'[id]) = NoBuffers(tasks[id])
                    /\ Len(tasks') = Len(tasks)
                    /\ \A j \in 1..Len(tasks) :
                         j # id => tasks'[j] = tasks[j]
               ELSE /\ lastCall'.emits = 0
                    /\ tasks' = tasks]_vars

\* C11 witness: appendOutput has just put a thought chunk in the buffer of a
\* running task and notified once, while another task is pending.
C11_Witness ==
  /\ lastCall.op = "appendOutput"
  /\ lastCall.emits = 1
  /\ lastCall.arg \in SeqToSet(runningTasks)
  /\ tasks[lastCall.arg].thoughtOutput = <<"a">>
  /\ tasks[lastCall.arg].output = <<>>
  /\ Len(queue) > 0


\* C12: the buffers of a task change only while the task is running, only by
\* a call of its streaming callback, and then the fragment is appended at the
\* end of one buffer, so the fragments are held in the order of the calls;
\* the buffers of a pending or terminal task never change, whenever the
\* callback is invoked.
C12_BuffersAppendOnly ==
  [][\A id \in 1..Len(tasks) :
       LET old == tasks[id]
           new == tasks'[id]
       IN /\ old.status # "running" =>
               /\ new.output = old.output
               /\ new.thoughtOutput = old.thoughtOutput
          /\ \A c \in StreamChunks, th \in BOOLEAN :
               (old.status = "running" /\ OnStreamChunk(id, c, th)) =>
                 /\ new.output =
                      IF th THEN old.output ELSE Append(old.output, c)
                 /\ new.thoughtOutput =
                      IF th THEN Append(old.thoughtOutput, c)
                      ELSE old.thoughtOutput
          /\ (\A c \in StreamChunks, th \in BOOLEAN :
                ~OnStreamChunk(id, c, th)) =>
               /\ new.output = old.output
               /\ new.thoughtOutput = old.thoughtOutput]_vars

\* C12 witness: a task ended holding two different fragments in one buffer,
\* and the other task is running.
C12_Witness ==
  \E id \in 1..Len(tasks) :
    /\ tasks[id].status \in Terminal
    /\ tasks[id].output = <<"b", "a">>
    /\ runningTasks # <<>>


\* the last n elements of s
LastN(s, n) == IF Len(s) <= n THEN s ELSE SubSeq(s, Len(s) - n + 1, Len(s))

\* C13: the history never holds more tasks than the cap, and every operation
\* other than clearHistory leaves in it the most recent entries, up to the
\* cap, of the old history followed by the tasks the operation ended, in the
\* order it ended them: eviction removes the oldest-terminated tasks only.
C13_HistoryEviction ==
  /\ [](Len(completedTasks) <= MaxCompletedHistory)
  /\ [][\/ ClearHistory(FALSE)
        \/ LET Ended(id) == /\ tasks[id].status \notin Terminal
                            /\ tasks'[id].status \in Terminal
               ended == SelectSeq(queue \o runningTasks, Ended)
           IN completedTasks' =
                LastN(completedTasks \o ended, MaxCompletedHistory)]_vars

\* C13 witness: the history is full, a task that ended is no longer in it,
\* and the tasks it holds ended in another order than they were submitted.
C13_Witness ==
  /\ Len(completedTasks) = MaxCompletedHistory
  /\ \E id \in 1..Len(tasks) :
       /\ tasks[id].status \in Terminal
       /\ id \notin SeqToSet(completedTasks)
  /\ \E i, j \in 1..Len(completedTasks) :
       i < j /\ completedTasks[i] > completedTasks[j]


\* tasks among ids whose status is in statuses
WithStatus(ids, statuses) == {id \in ids : tasks[id].status \in statuses}

\* C14: getStatus() reports the number of pending tasks, of running tasks,
\* of completed tasks in the history and of failed or cancelled tasks in the
\* history, and the last two add up to the size of the history.  5 tasks on
\* a queue with limit 2, of which no more than 2 were admitted so far, give
\* {queued:3, running:2, completed:0, failed:0} while none has ended, and
\* {queued:0, running:0, completed:5, failed:0} when all have succeeded.
C14_GetStatus ==
  LET st == GetStatus(State)
      hist == SeqToSet(completedTasks)
  IN /\ st.queued = Cardinality(SeqToSet(queue))
     /\ st.running = Cardinality(SeqToSet(runningTasks))
     /\ st.concurrency = concurrency
     /\ st.completed = Cardinality(WithStatus(hist, {"completed"}))
     /\ st.failed = Cardinality(WithStatus(hist, {"failed", "cancelled"}))
     /\ st.completed + st.failed = Len(completedTasks)
     /\ (/\ Len(tasks) = 5
         /\ concurrency = 2
         /\ Len(admitLog) <= 2
         /\ WithStatus(1..5, Terminal) = {}) =>
          st = [queued |-> 3, running |-> 2, concurrency |-> 2,
                completed |-> 0, failed |-> 0]
     /\ (/\ Len(tasks) = 5
         /\ WithStatus(1..5, {"completed"}) = 1..5) =>
          /\ st.queued = 0
          /\ st.running = 0
          /\ st.completed = 5
          /\ st.failed = 0

\* C14 witness: the five tasks of a batch run two at a time have all
\* succeeded and getStatus() counts them.
C14_Witness ==
  /\ Len(tasks) = 5
  /\ admitLog = <<1, 2, 3, 4, 5>>
  /\ GetStatus(State) = [queued |-> 0, running |-> 0, concurrency |-> 2,
                         completed |-> 5, failed |-> 0]


\* the ids of the tasks of a list returned by getAllTasks(), in its order
IdsOf(all) == [i \in 1..Len(all) |-> all[i].id]

AllIds == IdsOf(GetAllTasks(State))

\* position of a task in the list: running 0, pending 1, history 2
Rank(status) ==
  IF status = "running" THEN 0 ELSE IF status = "pending" THEN 1 ELSE 2

\* C15: getAllTasks() lists every task held in the pending list, the running
\* map or the history exactly once, with its current status: the running
\* tasks, then the pending tasks in submission order, then the history tasks
\* from the most recently terminated to the oldest (after every operation
\* that changes the history, the tasks that had ended before it and are
\* still listed are the most recent of them, in the order they had, and come
\* after every task the operation ended).
C15_GetAllTasks ==
  /\ [](\A all \in {GetAllTasks(State)}, ids \in {AllIds} :
          /\ NoDup(ids)
          /\ SeqToSet(ids) = {id \in 1..Len(tasks) : InCount(id) > 0}
          /\ \A i \in 1..Len(all) :
               all[i].status = tasks[all[i].id].status
          /\ \A i, j \in 1..Len(all) :
               i < j =>
                 /\ Rank(all[i].status) <= Rank(all[j].status)
                 /\ (all[i].status = "pending" /\ all[j].status = "pending")
                      => all[i].id < all[j].id)
  /\ [][completedTasks' # completedTasks =>
          \A before \in {AllIds}, after \in {AllIds'} :
            LET Old(id) == id <= Len(tasks) /\ tasks[id].status \in Terminal
                oldBefore == SelectSeq(before, Old)
                oldAfter == SelectSeq(after, Old)
                n == Len(after) - Len(oldAfter)
            IN /\ oldAfter = SubSeq(oldBefore, 1, Len(oldAfter))
               /\ oldAfter = SubSeq(after, n + 1, Len(after))]_vars

\* C15 witness: the list holds a running task, a pending task and two
\* history tasks, the one that ended last first.
C15_Witness ==
  /\ AllIds = <<2, 4, 1, 3>>
  /\ tasks[2].status = "running"
  /\ tasks[4].status = "pending"
  /\ tasks[1].status = "completed"
  /\ tasks[3].status = "cancelled"
  /\ completedTasks = <<3, 1>>


\* C16: setConcurrency(n) sets the limit to max(1, n) and moves tasks from
\* the head of the pending list to the running map until the map holds as
\* many tasks as the limit or the list is empty; the tasks that were running
\* stay in the map unchanged, whatever the new limit, and nothing ends.  A
\* step that admits a task leaves no more running tasks than the limit, so
\* after a decrease no task is admitted until enough running tasks finished.
C16_SetConcurrency ==
  [][/\ \A n \in 0..MaxConcurrency :
          SetConcurrency(n, FALSE) =>
            LET k == Min(Max(0, Max(1, n) - Len(runningTasks)), Len(queue))
            IN /\ concurrency' = Max(1, n)
               /\ runningTasks' = runningTasks \o SubSeq(queue, 1, k)
               /\ queue' = SubSeq(queue, k + 1, Len(queue))
               /\ \A id \in SeqToSet(runningTasks) : tasks'[id] = tasks[id]
               /\ \A id \in SeqToSet(runningTasks') :
                    tasks'[id].status = "running"
               /\ UNCHANGED <<completedTasks, promises>>
     /\ admitLog' # admitLog => Len(runningTasks') <= concurrency']_vars

\* C16 witness: the limit was lowered while two tasks were running, one of
\* them admitted after an earlier task ended; both are still running and a
\* pending task waits.
C16_Witness ==
  /\ Len(runningTasks) = 2
  /\ concurrency = 1
  /\ Len(queue) > 0
  /\ Len(admitLog) = 3
  /\ \A id \in SeqToSet(runningTasks) : tasks[id].status = "running"


\* what clear() does to the tasks that are pending and to those that are
\* running when it is called
ClearEffect ==
  /\ queue' = <<>>
  /\ \A id \in SeqToSet(queue) :
       /\ tasks'[id].status = "cancelled"
       /\ tasks'[id].endTime # NoTime
       /\ tasks'[id].startTime = NoTime
       /\ tasks'[id].output = tasks[id].output
       /\ tasks'[id].thoughtOutput = tasks[id].thoughtOutput
       /\ promises'[id].state = "rejected"
       /\ promises'[id].reason = NewError("Queue cleared")
       /\ promises'[id].calls = 1
  /\ runningTasks' = runningTasks
  /\ \A id \in SeqToSet(runningTasks) :
       /\ tasks'[id] = tasks[id]
       /\ promises'[id] = promises[id]
  /\ concurrency' = concurrency

\* a running task whose worker returns completes, with its buffers as they are
CompletesNormally ==
  \A id \in SeqToSet(runningTasks) :
    WorkerResolve(id, FALSE) =>
      /\ tasks'[id].status = "completed"
      /\ tasks'[id].output = tasks[id].output
      /\ tasks'[id].thoughtOutput = tasks[id].thoughtOutput
      /\ promises'[id].state = "fulfilled"

\* C17 as stated: clear() cancels and rejects every pending task, empties
\* the pending list and leaves the running tasks alone, and every task that
\* was pending is in the history afterwards.
C17_ClearAsStated ==
  [][/\ Clear(FALSE) =>
          /\ ClearEffect
          /\ \A id \in SeqToSet(queue) : id \in SeqToSet(completedTasks')
     /\ CompletesNormally]_vars

\* C17 amended: clear() cancels and rejects every pending task, empties the
\* pending list and leaves the running tasks and their buffers alone; the
\* cancelled tasks are appended to the history in pending order and the
\* history is then trimmed to its cap, so when the old history and the
\* pending tasks together exceed the cap the oldest entries, cancelled tasks
\* of this call included, are not in the history afterwards.
C17_ClearAmended ==
  [][/\ Clear(FALSE) =>
          /\ ClearEffect
          /\ completedTasks' =
               LastN(completedTasks \o queue, maxCompletedHistory)
     /\ CompletesNormally]_vars

\* C17 witness: clear() rejected more pending tasks than the history can
\* hold, the first of them is in no collection, and the running task still
\* runs with the output it streamed.
C17_Witness ==
  /\ queue = <<>>
  /\ Len(completedTasks) = maxCompletedHistory
  /\ \A id \in SeqToSet(completedTasks) :
       promises[id].reason = NewError("Queue cleared")
  /\ \E id \in 1..Len(tasks) :
       /\ promises[id].reason = NewError("Queue cleared")
       /\ InCount(id) = 0
  /\ \E id \in SeqToSet(runningTasks) :
       /\ tasks[id].status = "running"
       /\ tasks[id].output = <<"a">>


\* the fields S with the listeners that throw unsubscribed
Quiet(S) ==
  LET Returns(l) == l \notin ThrowingListeners
  IN [S EXCEPT !.eventListeners = SelectSeq(@, Returns)]

\* two runs of a handler leave the same queue and made as many notifications
SameOutcome(S1, S2) ==
  /\ Fields(S1) = Fields(S2)
  /\ S1.promises = S2.promises
  /\ S1.admitLog = S2.admitLog
  /\ S1.emits = S2.emits
  /\ \A l \in Listeners \ ThrowingListeners : S1.notified[l] = S2.notified[l]

\* C18: during every operation each registered listener is called once per
\* notification, the listeners registered after one that throws included,
\* and every operation leaves the queue as it would with the throwing
\* listeners unsubscribed.
C18_ThrowingListener ==
  /\ [][\A l \in Listeners :
          lastCall'.notified[l] =
            IF l \in SeqToSet(eventListeners) THEN lastCall'.emits ELSE 0]_vars
  /\ [](\A S \in {State}, Q \in {Quiet(State)} :
          /\ SameOutcome(SubmitBody(S), SubmitBody(Q))
          /\ SameOutcome(ClearBody(S), ClearBody(Q))
          /\ SameOutcome(ClearHistoryBody(S), ClearHistoryBody(Q))
          /\ \A n \in 0..MaxConcurrency :
               SameOutcome(SetConcurrencyBody(S, n), SetConcurrencyBody(Q, n))
          /\ \A id \in SeqToSet(queue) :
               SameOutcome(CancelFound(S, id, CancelIndex(S, id)),
                           CancelFound(Q, id, CancelIndex(Q, id)))
          /\ \A id \in SeqToSet(runningTasks) :
               /\ SameOutcome(SettleBody(S, id, FALSE, NoReason),
                              SettleBody(Q, id, FALSE, NoReason))
               /\ SameOutcome(SettleBody(S, id, TRUE, ThrownError),
                              SettleBody(Q, id, TRUE, ThrownError))
               /\ SameOutcome(AppendOutputBody(S, id, "a", FALSE),
                              AppendOutputBody(Q, id, "a", FALSE)))

\* C18 witness: submit notified twice (the new task, then its admission)
\* with a throwing listener registered first, and both listeners were called
\* twice.
C18_Witness ==
  /\ eventListeners = <<1, 2>>
  /\ 1 \in ThrowingListeners
  /\ lastCall.op = "submit"
  /\ lastCall.emits = 2
  /\ lastCall.notified[1] = 2
  /\ lastCall.notified[2] = 2

\* C19: every operation that changes what getStatus() or getAllTasks()
\* return (submit, admission, output append, completion, failure,
\* cancelTask, clear, clearHistory, setConcurrency) calls every registered
\* listener at least once, the last time after its last change.
C19_EveryChangeNotified ==
  [][Visible(State)' # Visible(State) =>
       /\ lastCall'.emits >= 1
       /\ lastCall'.fresh
       /\ \A l \in SeqToSet(eventListeners) : lastCall'.notified[l] >= 1]_vars


\* C20: for any interleaving of the callers, no more than maxRequests
\* admissions are recorded in any interval of windowMs that ends at some
\* time t (times t - windowMs < a <= t), and the (i + maxRequests)-th
\* admission is at least windowMs after the i-th.
C20_RateLimit ==
  LET m == rateArgs.maxRequests
      w == rateArgs.windowMs
      In(t) == {i \in 1..Len(admissions) :
                  t - w < admissions[i] /\ admissions[i] <= t}
  IN /\ \A t \in 0..(MaxClock + w) : Cardinality(In(t)) <= m
     /\ \A i \in 1..Len(admissions) :
          i + m <= Len(admissions) =>
            admissions[i + m] - admissions[i] >= w
     /\ \A i \in 1..Len(admissions) :
          i < Len(admissions) => admissions[i] <= admissions[i + 1]

\* C20 witness: with maxRequests = 2, two back-to-back calls were admitted
\* at once and the third was admitted after its wait, windowMs plus the
\* buffer after the first.
C20_Witness ==
  /\ rateArgs.maxRequests = 2
  /\ Len(admissions) = 3
  /\ admissions[2] = admissions[1]
  /\ admissions[3] = admissions[1] + rateArgs.windowMs + SlotBuffer
  /\ \A c \in Callers : callers[c].pc = "done"

\* number of entries x of the sequence s
Occurrences(s, x) ==
  LET Is(y) == y = x IN Len(SelectSeq(s, Is))

\* number of remote requests the worker invocation w has sent
Attempts(w) == Occurrences(w.log, "remote")

\* what marks a message as transient: the gateway timeout status, a broken
\* stream, a network error, a connection reset
TransientMarkers ==
  {"524", "error in input stream", "network error", "econnreset"}

\* a message of the transient class that does not also name the
\* oversized-payload status
TransientClass(m) ==
  Mentions[m] \cap TransientMarkers # {} /\ "413" \notin Mentions[m]

ListedDelay(k) ==
  CASE k = 1 -> 2000
    [] k = 2 -> 4000
    [] k = 3 -> 8000
    [] OTHER -> 10000

\* C23: the wait before retry number k (k = attempt + 1) is 2000, 4000,
\* 8000 ms for k = 1, 2, 3 and 10000 ms for every later retry; the notice of
\* the retry shows it in seconds; the waits of one call never decrease and
\* never exceed 10000 ms.
C23_Backoff ==
  /\ [](\A id \in 1..Len(workers) :
          /\ workers[id].delayMs <= 10000
          /\ workers[id].pc = "backoff" =>
               /\ workers[id].delayMs = ListedDelay(workers[id].attempt + 1)
               /\ Len(tasks[id].output) = workers[id].attempt + 1
               /\ tasks[id].output[workers[id].attempt + 1].seconds * 1000
                    = ListedDelay(workers[id].attempt + 1))
  /\ [][\A id \in 1..Len(workers) :
          workers'[id].delayMs >= workers[id].delayMs]_vars

\* C23 witness: the worker waits before its fourth retry, after waits of
\* 2, 4 and 8 seconds, and this wait is the cap.
C23_Witness ==
  /\ Len(workers) = 1
  /\ workers[1].pc = "backoff"
  /\ workers[1].attempt + 1 = 4
  /\ workers[1].delayMs = 10000
  /\ tasks[1].output[1].seconds = 2
  /\ tasks[1].output[2].seconds = 4
  /\ tasks[1].output[3].seconds = 8
  /\ tasks[1].output[4].seconds = 10

\* the notices among the chunks of a buffer
Notices(buf) ==
  LET IsNotice(c) == c.kind \in {"retry", "fallback"}
  IN SelectSeq(buf, IsNotice)

RetryNotices(buf) ==
  LET IsRetry(c) == c.kind = "retry" IN SelectSeq(buf, IsRetry)

\* C24: the notices of retries and of the fallback are only ever in the
\* answer buffer of the task, never in its thought buffer; the k-th retry
\* notice announces retry k; the worker emits a retry notice right after a
\* request threw and sends the next request right after the notice, and
\* every request but the first follows a notice, so that the notices are as
\* many as the retries (one more while the worker waits to retry); a step
\* emits a retry notice only when a request threw and a retry follows.
C24_RetryNotice ==
  /\ [](\A id \in 1..Len(workers) :
          LET w == workers[id]
              notices == RetryNotices(tasks[id].output)
          IN /\ Notices(tasks[id].thoughtOutput) = <<>>
             /\ \A k \in 1..Len(notices) : notices[k].retryNum = k
             /\ Len(notices) = Occurrences(w.log, "retryNotice")
             /\ Attempts(w) >= 1 =>
                  Len(notices) = Attempts(w) - 1
                                 + (IF w.pc = "backoff" THEN 1 ELSE 0)
             /\ Attempts(w) = 0 => Len(notices) = 0
             /\ \A i \in 1..Len(w.log) :
                  /\ w.log[i] = "retryNotice" =>
                       /\ i > 1 /\ w.log[i - 1] = "threw"
                       /\ i < Len(w.log) => w.log[i + 1] = "remote"
                  /\ w.log[i] = "remote" /\ i > 1 =>
                       w.log[i - 1] = "retryNotice")
  /\ [][\A id \in 1..Len(workers) :
          LET before == Len(RetryNotices(tasks[id].output))
              after == Len(RetryNotices(tasks'[id].output))
          IN /\ after \in {before, before + 1}
             /\ after = before + 1 <=>
                  /\ workers[id].pc = "remote"
                  /\ workers'[id].pc = "backoff"]_vars

\* C24 witness: the response streamed a thought, two requests threw and the
\* worker sent its third request after two notices, which are in the answer
\* buffer.
C24_Witness ==
  /\ Len(workers) = 1
  /\ workers[1].pc = "remote"
  /\ Attempts(workers[1]) = 3
  /\ Len(tasks[1].thoughtOutput) = 1
  /\ tasks[1].thoughtOutput[1].kind = "text"
  /\ Len(RetryNotices(tasks[1].output)) = 2

\* number of requests (remote, fallback and local) the invocation w sent
Requests(w) ==
  Occurrences(w.log, "remote") + Occurrences(w.log, "fallback")
  + Occurrences(w.log, "local")

\* a message that is neither of the transient class nor names the
\* oversized-payload status
OtherClass(m) == Mentions[m] \cap (TransientMarkers \cup {"413"}) = {}

\* the worker of task id stops in this step with the error e of a request:
\* the task is failed with the message of e, its promise is rejected with e,
\* no chunk is emitted and no further request is sent
FailsWith(id, e) ==
  /\ tasks'[id].status = "failed"
  /\ tasks'[id].error = e.message
  /\ promises'[id].state = "rejected"
  /\ promises'[id].reason = e
  /\ workers'[id].pc = "done"
  /\ workers'[id].note = <<>>
  /\ tasks'[id].output = tasks[id].output
  /\ tasks'[id].thoughtOutput = tasks[id].thoughtOutput
  /\ Requests(workers'[id]) = Requests(workers[id])

RetriesUsed(w) == Occurrences(w.log, "retryNotice")

\* C26: a request of a task (the remote-PDF request, the local-text request
\* of local parse mode, the local-text request of the fallback) that throws
\* a transient-class error while retry budget remains does not make the task
\* fail: the task stays running and the worker goes on to retry.
C26_TransientRetriedOnEveryPath ==
  [][\A id \in 1..Len(workers) :
       RetriesUsed(workers[id]) < prefs.retryOn524 =>
         /\ \A m \in RemoteMessages, h \in BOOLEAN :
              TransientClass(m) /\ RemoteThrows(id, RequestError(m), h) =>
                tasks'[id].status = "running" /\ workers'[id].pc = "backoff"
         /\ \A m \in LocalMessages :
              TransientClass(m) /\ LocalThrows(id, RequestError(m)) =>
                tasks'[id].status = "running" /\ workers'[id].pc # "done"
         /\ \A m \in LocalMessages :
              TransientClass(m) /\ FallbackThrows(id, RequestError(m)) =>
                tasks'[id].status = "running" /\ workers'[id].pc # "done"]_vars

\* a message that names the oversized-payload status and is not of the
\* transient class
OversizedClass(m) ==
  "413" \in Mentions[m] /\ Mentions[m] \cap TransientMarkers = {}

FallbackNotices(buf) ==
  LET IsFallback(c) == c.kind = "fallback" IN SelectSeq(buf, IsFallback)

\* C28: the note of a task is saved only when its worker returned; it
\* starts with the banner exactly when the worker sent the fallback request
\* and that request returned, and a note without the banner is the result
\* alone; a worker that sent the fallback request emitted the fallback
\* notice once before it, into the answer buffer and not into the thought
\* buffer.
C28_Banner ==
  \A id \in 1..Len(workers) :
    LET w == workers[id]
    IN /\ w.note # <<>> =>
            /\ tasks[id].status = "completed"
            /\ w.note[1] = Banner <=> Occurrences(w.log, "fallback") = 1
            /\ w.note \in {<<Banner, Markdown>>, <<Markdown>>}
       /\ w.finalMarkdown # <<>> =>
            (w.finalMarkdown[1] = Banner <=>
               Occurrences(w.log, "fallback") = 1)
       /\ Occurrences(w.log, "fallback") = 1 =>
            /\ Len(FallbackNotices(tasks[id].output)) = 1
            /\ FallbackNotices(tasks[id].thoughtOutput) = <<>>
            /\ FindIndex(w.log, "fallbackNotice")
                 \in 1..(FindIndex(w.log, "fallback") - 1)
       /\ Occurrences(w.log, "fallbackNotice") = 0 =>
            FallbackNotices(tasks[id].output) = <<>>

\* C28 witness: the remote request threw an oversized-payload error, the
\* text was extracted, the fallback request returned and the note was
\* saved with the banner in front of the result.
C28_Witness ==
  /\ Len(workers) = 1
  /\ workers[1].note = <<Banner, Markdown>>
  /\ tasks[1].status = "completed"
  /\ workers[1].log
       = <<"remote", "threw", "fallbackNotice", "extract", "fallback",
           "save">>
  /\ Len(FallbackNotices(tasks[1].output)) = 1

\* the messages of the errors built by the fallback branch
FallbackMessages == {ExtractFailedMessage, EmptyTextMessage}

\* C29: after an oversized-payload error of the remote request the task
\* never fails with that error.  When reading the local text throws, or the
\* text is empty, the task fails with the error the fallback branch builds
\* for that case and no fallback request is sent; when the fallback request
\* throws, the task fails with the error of the fallback request.  In each
\* case no note is saved.
C29_FallbackFailure ==
  /\ [](\A id \in 1..Len(workers) :
          LET w == workers[id]
          IN tasks[id].status = "failed" =>
               /\ w.note = <<>>
               /\ ~(tasks[id].error \in RemoteMessages
                    /\ "413" \in Mentions[tasks[id].error])
               /\ Occurrences(w.log, "fallbackNotice") = 1 =>
                    /\ tasks[id].error \in FallbackMessages \cup LocalMessages
                    /\ tasks[id].error \in FallbackMessages <=>
                         Occurrences(w.log, "fallback") = 0)
  /\ [][\A id \in 1..Len(workers) :
          /\ ExtractSettles(id, "throws") =>
               FailsWith(id, NewError(ExtractFailedMessage))
          /\ ExtractSettles(id, "empty") =>
               FailsWith(id, NewError(EmptyTextMessage))
          /\ \A m \in LocalMessages :
               FallbackThrows(id, RequestError(m)) =>
                 FailsWith(id, RequestError(m))]_vars

\* C29 witness: after an oversized-payload error the attachment had no text
\* and Zotero returned none, and the task failed with the error built for
\* that case, without a fallback request.
C29_Witness ==
  /\ Len(workers) = 1
  /\ workers[1].log = <<"remote", "threw", "fallbackNotice", "extract">>
  /\ tasks[1].status = "failed"
  /\ tasks[1].error = EmptyTextMessage
  /\ promises[1].reason = NewError(EmptyTextMessage)
  /\ workers[1].note = <<>>

\* what parseSSEResponse does with the whole response read as one chunk
OneChunk == Finish(Feed(NewParser, body))

\* C30: once the parser has returned, however the response was cut into
\* chunks, the result and the sequence of fragments passed to the callback
\* are those of the same response read as one chunk.
C30_ChunkSplitInvariance ==
  result # <<>> =>
    /\ result[1] = OneChunk.result
    /\ fragments = OneChunk.P.fragments

\* a response with a thought and answers has been parsed from chunks that
\* ended inside a character, inside the data prefix and inside a line
C30_Witness ==
  /\ result # <<>>
  /\ splits = {"character", "prefix", "line"}
  /\ Len(fragments) >= 3
  /\ result[1].thoughtsMarkdown = <<<<"x">>>>
  /\ "E9" \in {result[1].markdown[i] : i \in 1..Len(result[1].markdown)}

\* the lines of the body, and the body without its i-th line
BodyLines == Split(ResText(body))

RECURSIVE Join(_)
Join(lines) ==
  IF lines = <<>> THEN <<>>
  ELSE IF Len(lines) = 1 THEN lines[1]
  ELSE lines[1] \o <<"LF">> \o Join(Tail(lines))

Without(i) ==
  Join(SubSeq(BodyLines, 1, i - 1)
       \o SubSeq(BodyLines, i + 1, Len(BodyLines)))

\* a data line whose payload JSON.parse rejects
FailsJson(line) ==
  /\ StartsWith(line, DataPrefix)
  /\ LET jsonStr == Trim(SubSeq(line, Len(DataPrefix) + 1, Len(line)))
     IN jsonStr # <<>> /\ jsonStr # Done /\ ~JsonParse(jsonStr).ok

\* what either path returns for these bytes and the calls it makes
Parsed(bytes) ==
  IF reader THEN Finish(Feed(NewParser, bytes))
  ELSE ParseSingleResponse(ResText(bytes))

\* C31: once the parser has returned, on the streaming and on the one-shot
\* path, the result and the fragments passed to the callback are those of
\* the body without any one of its lines that fails JSON parsing.
C31_MalformedTolerance ==
  result # <<>> =>
    \A i \in 1..Len(BodyLines) :
      FailsJson(BodyLines[i]) =>
        /\ result[1] = Parsed(Without(i)).result
        /\ fragments = Parsed(Without(i)).P.fragments

\* a stream with a line that fails JSON parsing between an answer and a
\* thought has been parsed in several chunks, and both events were kept
C31_Witness ==
  /\ result # <<>>
  /\ reader
  /\ splits # {}
  /\ Len(BodyLines) >= 3
  /\ FailsJson(BodyLines[2])
  /\ result[1] = [markdown |-> <<"x">>, thoughtsMarkdown |-> <<<<"h">>>>]
  /\ Len(fragments) = 2

\* a data line whose payload is exactly [DONE]
IsDone(line) ==
  /\ StartsWith(line, DataPrefix)
  /\ SubSeq(line, Len(DataPrefix) + 1, Len(line)) = Done

\* the texts of the fragments passed to the callback with this flag, one
\* after the other
RECURSIVE Forwarded(_, _)
Forwarded(fs, isThought) ==
  IF fs = <<>> THEN <<>>
  ELSE (IF fs[1].isThought = isThought THEN fs[1].text ELSE <<>>)
       \o Forwarded(Tail(fs), isThought)

\* a thought event, an answer event and the end marker
Scenario ==
  DataPrefix \o <<"{", "?", "h", "}", "LF">>
  \o DataPrefix \o <<"{", "x", "}", "LF">>
  \o DataPrefix \o Done \o <<"LF">>

\* C32: once the parser has returned, the result and the fragments are
\* those of the body without any one of its [DONE] lines; the thoughts
\* collected are the texts of the fragments flagged as thought and the
\* answer collected is the texts of the other fragments; and a thought
\* event, an answer event and a [DONE] line give that answer and that
\* thought.
C32_DoneAndRouting ==
  result # <<>> =>
    /\ \A i \in 1..Len(BodyLines) :
         IsDone(BodyLines[i]) =>
           /\ result[1] = Parsed(Without(i)).result
           /\ fragments = Parsed(Without(i)).P.fragments
    /\ thoughtsMarkdown = Forwarded(fragments, TRUE)
    /\ markdown = Forwarded(fragments, FALSE)
    /\ body = Scenario =>
         /\ result[1] = [markdown |-> <<"x">>, thoughtsMarkdown |-> <<<<"h">>>>]
         /\ fragments = <<[text |-> <<"h">>, isThought |-> TRUE],
                          [text |-> <<"x">>, isThought |-> FALSE]>>

\* the thought event, the answer event and the [DONE] line have been read
\* from a reader in several chunks
C32_Witness ==
  /\ result # <<>>
  /\ reader
  /\ body = Scenario
  /\ "line" \in splits

\* a text without the white space at its end
RECURSIVE TrimEnd(_)
TrimEnd(cs) ==
  IF cs # <<>> /\ cs[Len(cs)] \in Whitespace
  THEN TrimEnd(SubSeq(cs, 1, Len(cs) - 1))
  ELSE cs

\* the thoughts returned, empty when they are undefined
Thoughts(r) ==
  IF r.thoughtsMarkdown = <<>> THEN <<>> ELSE r.thoughtsMarkdown[1]

\* the texts the parts of the payloads carry
PartTexts == {Text(c) : c \in TextChars} \ {<<>>}

\* the body is parsed as one JSON document by the one-shot path
AsDocument == ~reader /\ body \in JsonBodies

\* C33 as stated: the texts passed to the callback are the texts of the
\* parts, and the answer and the thoughts returned are the texts passed
\* with isThought false and true, one after the other, without the white
\* space at the end.
C33_OutputAsStated ==
  result # <<>> =>
    /\ \A k \in 1..Len(fragments) : fragments[k].text \in PartTexts
    /\ result[1].markdown = TrimEnd(Forwarded(fragments, FALSE))
    /\ Thoughts(result[1]) = TrimEnd(Forwarded(fragments, TRUE))

\* C33, amended: every callback call is made before the parser returns; the
\* text passed is the text of a part, followed by a line feed for a thought
\* of a body parsed as one JSON document; the answer and the thoughts
\* returned are the texts passed with isThought false and true, one after
\* the other, without the white space at both ends, and the thoughts are
\* undefined when nothing is left of them.
C33_OutputAmended ==
  /\ [](result # <<>> =>
          /\ \A k \in 1..Len(fragments) :
               \/ fragments[k].text \in PartTexts
               \/ /\ AsDocument
                  /\ fragments[k].isThought
                  /\ \E t \in PartTexts : fragments[k].text = t \o <<"LF">>
          /\ result[1].markdown = Trim(Forwarded(fragments, FALSE))
          /\ Thoughts(result[1]) = Trim(Forwarded(fragments, TRUE)))
  /\ [][result # <<>> => fragments' = fragments]_vars

\* an answer that starts with a space has been returned without it
C33_Witness ==
  /\ result # <<>>
  /\ Len(fragments) >= 2
  /\ fragments[1] = [text |-> <<" ">>, isThought |-> FALSE]
  /\ result[1].markdown = <<"x">>

\* C34 as stated: whichever path parsed the body, the result is the one the
\* streaming path returns for it and the one the one-shot path returns for
\* it, which for a body without text in its events is that of the body
\* parsed as one JSON document.
C34_PathsAgree ==
  result # <<>> =>
    /\ result[1] = Finish(Feed(NewParser, body)).result
    /\ result[1] = ParseSingleResponse(ResText(body)).result

\* the requests (task, number) sent in the window that ends at time t
SentIn(t) ==
  UNION {{<<id, k>> : k \in {k \in 1..Len(workers[id].sentAt) :
                               /\ t - rateArgs.windowMs < workers[id].sentAt[k]
                               /\ workers[id].sentAt[k] <= t}} :
         id \in 1..Len(workers)}

\* C35 as stated: counting the first requests, the retries and the fallback
\* requests of all tasks, no more than maxRequests requests are sent in any
\* interval of windowMs.
C35_AllRequestsLimited ==
  \A t \in 0..(MaxClock + rateArgs.windowMs) :
    Cardinality(SentIn(t)) <= rateArgs.maxRequests

\* number of timestamps the limiter holds that are less than windowMs old
InWindow ==
  Cardinality({i \in 1..Len(timestamps) :
                 now - timestamps[i] < rateArgs.windowMs})

\* C36: every caller that sleeps in waitForSlot is admitted in the end,
\* unless its timer is set beyond the last tick of the clock; whenever a
\* caller evaluates the window, on its call and after each sleep, it is
\* admitted at once if and only if fewer than maxRequests timestamps are in
\* the window, and otherwise sleeps until a later time.
C36_RateLiveness ==
  /\ \A c \in Callers :
       callers[c].pc = "sleeping" ~>
         (callers[c].pc = "done" \/ callers[c].wakeAt > MaxClock)
  /\ [][\A c \in Callers :
          callers'[c] # callers[c] =>
            /\ callers[c].pc \in {"idle", "sleeping"}
            /\ callers'[c].pc = "done" <=> InWindow < rateArgs.maxRequests
            /\ callers'[c].pc = "done" =>
                 /\ Len(admissions') = Len(admissions) + 1
                 /\ timestamps'[Len(timestamps')] = now'
            /\ callers'[c].pc # "done" =>
                 /\ callers'[c].pc = "sleeping"
                 /\ callers'[c].wakeAt > now
                 /\ admissions' = admissions]_vars

\* with one request per window, a caller has been admitted after its sleep
\* while another one still sleeps
C36_Witness ==
  /\ rateArgs.maxRequests = 1
  /\ Len(admissions) = 2
  /\ admissions[2] >= admissions[1] + rateArgs.windowMs + SlotBuffer
  /\ \E c \in Callers : callers[c].pc = "sleeping"

\* the ids held by the pending list, the running map and the history
Held ==
  SeqToSet(queue) \cup SeqToSet(runningTasks) \cup SeqToSet(completedTasks)

\* C37: in every reachable state a task in the pending list is pending and
\* has neither start nor end time, a task in the running map is running and
\* has a start time and no end time, a task in the history has a terminal
\* status and an end time; no id is held twice, and the id given by submit
\* is larger than every id given before.
C37_StatusAgrees ==
  /\ [](/\ \A i \in 1..Len(queue) :
              /\ tasks[queue[i]].status = "pending"
              /\ tasks[queue[i]].startTime = NoTime
              /\ tasks[queue[i]].endTime = NoTime
        /\ \A i \in 1..Len(runningTasks) :
              /\ tasks[runningTasks[i]].status = "running"
              /\ tasks[runningTasks[i]].startTime # NoTime
              /\ tasks[runningTasks[i]].endTime = NoTime
        /\ \A i \in 1..Len(completedTasks) :
              /\ tasks[completedTasks[i]].status \in Terminal
              /\ tasks[completedTasks[i]].endTime # NoTime
        /\ NoDup(queue \o runningTasks \o completedTasks))
  /\ [][Len(tasks') > Len(tasks) =>
          /\ Len(tasks') = Len(tasks) + 1
          /\ Held' \ Held = {Len(tasks')}
          /\ \A id \in Held : id < Len(tasks')]_vars

\* a pending, a running, a completed and a cancelled task at once
C37_Witness ==
  /\ queue # <<>>
  /\ runningTasks # <<>>
  /\ \E i, j \in 1..Len(completedTasks) :
       /\ tasks[completedTasks[i]].status = "completed"
       /\ tasks[completedTasks[j]].status = "cancelled"

\* the ids of the pending and of the running tasks
Active == SeqToSet(queue) \cup SeqToSet(runningTasks)

\* C38: however the invocations of summarizeSelected interleave with each
\* other and with the queue, no two tasks of the pending list and the
\* running map are for the same attachment, and hasActiveTask(p) is true if
\* and only if the data of some pending or running task satisfies p.
C38_NoDuplicateActive ==
  /\ \A i, j \in Active :
       i # j => workers[i].attachment # workers[j].attachment
  /\ \A match \in SUBSET Attachments :
       HasActiveTask(State, workers, match)
         <=> \E id \in Active : workers[id].attachment \in match

\* an invocation found all its attachments in the queue and submitted
\* nothing, while an attachment summarized before is active again
C38_Witness ==
  /\ lastCall.op = "summarizeSelected"
  /\ lastCall.ret = FALSE
  /\ \E id \in SeqToSet(completedTasks), again \in Active :
       /\ tasks[id].status = "completed"
       /\ workers[id].attachment = workers[again].attachment

\* the requests the worker invocation w has started, in order
RequestLog(w) ==
  LET IsRequest(x) == x \in RequestKinds IN SelectSeq(w.log, IsRequest)

\* C40: a worker invocation passes the rate limiter once, before its first
\* request; in remote mode it then starts at most 1 + retryBudget remote
\* requests and after them at most one fallback request, which may follow
\* retries; in local mode it starts exactly one request.
C40_RequestBound ==
  /\ Len(admissions) = Cardinality({c \in Callers : callers[c].pc = "done"})
  /\ \A id \in 1..Len(workers) :
       LET w == workers[id]
           reqs == RequestLog(w)
       IN /\ w.pc # "idle" => callers[id].pc = "done"
          /\ Len(w.sentAt) = Len(reqs)
          /\ reqs # <<>> => \E i \in 1..Len(admissions) :
                              admissions[i] <= w.sentAt[1]
          /\ IF prefs.pdfParseMode = "remote"
             THEN /\ Occurrences(reqs, "remote") <= 1 + prefs.retryOn524
                  /\ Occurrences(reqs, "fallback") <= 1
                  /\ \A i \in 1..Len(reqs) :
                       /\ reqs[i] \in {"remote", "fallback"}
                       /\ reqs[i] = "fallback" => i = Len(reqs) /\ i > 1
             ELSE w.pc # "idle" => reqs = <<"local">>

\* an invocation waited for its slot, sent a remote request, retried it
\* after a transient error and then sent its fallback request, which
\* succeeded
C40_Witness ==
  \E id \in 1..Len(workers) :
    /\ RequestLog(workers[id]) = <<"remote", "remote", "fallback">>
    /\ tasks[id].status = "completed"
    /\ callers[id].pc = "done"
    /\ workers[id].sentAt[1] > 0

\* C39: when the listeners, while they are notified by submit, an
\* admission, a completion, cancelTask or clear, call submit, cancelTask,
\* setConcurrency, clear or clearHistory, every admission still finds fewer
\* running tasks than the limit, tasks are still admitted in submission
\* order and none twice, every task is still in at most one collection (in
\* exactly one until it is terminal), and no promise is settled twice.
C39_ReentrantListeners ==
  /\ belowLimit
  /\ \A i, j \in 1..Len(admitLog) : i < j => admitLog[i] < admitLog[j]
  /\ \A id \in SeqToSet(admitLog) : tasks[id].status # "pending"
  /\ NoDup(queue) /\ NoDup(runningTasks) /\ NoDup(completedTasks)
  /\ \A id \in 1..Len(tasks) :
       /\ InCount(id) <= 1
       /\ tasks[id].status \notin Terminal => InCount(id) = 1
       /\ id \in SeqToSet(queue) <=> tasks[id].status = "pending"
       /\ id \in SeqToSet(runningTasks) <=> tasks[id].status = "running"
       /\ promises[id].calls <= 1
       /\ promises[id].calls = 1 <=> tasks[id].status \in Terminal

\* the listener notified by submit cancelled the new task before submit
\* went on to admit it: the only task ever submitted was never admitted
C39_Witness ==
  /\ Len(tasks) = 1
  /\ tasks[1].status = "cancelled"
  /\ promises[1].state = "rejected"
  /\ admitLog = <<>>

====
